---- MODULE Spec2Model ----
(***************************************************************************)
(* A model of the ragpipe retrieval pipeline: the retrieval-quality gate   *)
(* (RAGService.assess_search_quality), the query pipeline                   *)
(* (RAGService.rag_query), PDF ingestion (PDFService.process_papers), the   *)
(* vector-store adapter (VectorService), the section chunker, the scorer    *)
(* and selector, and the orchestrator (RAGOrchestrator.process_user_query). *)
(*                                                                         *)
(* Conventions.  A Python str is a sequence of one-character strings.       *)
(* Similarity scores are integers in hundredths (0.8 is 80); relevance      *)
(* scores are integers in thousandths (0.4 is 400).  A call that raises     *)
(* is modelled by the value Raise(kind); a call that returns by Return(v).  *)
(***************************************************************************)
EXTENDS Integers, Sequences, FiniteSets, TLC

VARIABLES
    store,            \* the Pinecone index: vector id -> metadata dict
    store0,           \* history: the index when the running call started
    pc,               \* position of the running process_user_query call
    query,            \* the user's query (a str)
    use_rag,          \* the use_rag argument
    threshold,        \* the threshold argument of assess_search_quality
    query_response,   \* what search_vector_db returned: [matches |-> <<...>>]
    gate,             \* what assess_search_quality returned (or raised)
    papers,           \* rag_query: the arXiv search result
    relevant_papers,  \* rag_query's return value, as seen by the orchestrator
    ingested,         \* rag_query: processed_papers, the papers downloaded
    processed_papers, \* orchestrator: papers_with_content
    relevant_chunks,  \* orchestrator: the selected chunks
    prompt,           \* the prompt handed to the LLM
    result,           \* what process_user_query returned or raised
    log,              \* history: the collaborator calls made by this run
    arg_text,         \* direct call of chunk_paper: the text argument
    arg_sizes,        \* the SectionChunker's max_chunk_size and min_chunk_size
    ret_chunks,       \* what chunk_paper returned
    arg_chunks,       \* direct call of the scorer: the chunks list, as the call leaves it
    ret_scored,       \* what the scorer returned; the list handed to the selector
    arg_max_chunks,   \* direct call of the selector: the max_chunks argument
    ret_selected,     \* what the selector returned
    chunk_calls,      \* history: the chunk_paper calls made on one SectionChunker
    loop              \* the locals of the running chunking loop

\* the variables of a direct call of the chunker, the scorer or the selector
unit_vars == << arg_text, arg_sizes, ret_chunks, arg_chunks, ret_scored, arg_max_chunks, ret_selected,
                chunk_calls, loop >>

vars == << store, store0, pc, query, use_rag, threshold, query_response, gate, papers,
           ingested, relevant_papers, processed_papers, relevant_chunks, prompt, result, log,
           arg_text, arg_sizes, ret_chunks, arg_chunks, ret_scored, arg_max_chunks, ret_selected,
           chunk_calls, loop >>

-----------------------------------------------------------------------------
(* Call outcomes *)

Return(v) == [raised |-> "", value |-> v]
Raise(kind) == [raised |-> kind]
Raised(r) == r.raised # ""

NoValue == [none |-> TRUE]

\* no direct call of the chunker, the scorer or the selector is in progress
NoUnitCall ==
    /\ arg_text = NoValue
    /\ arg_sizes = NoValue
    /\ ret_chunks = NoValue
    /\ arg_chunks = NoValue
    /\ ret_scored = NoValue
    /\ arg_max_chunks = NoValue
    /\ ret_selected = NoValue
    /\ chunk_calls = <<>>
    /\ loop = NoValue

-----------------------------------------------------------------------------
(* Sequences *)

Range(s) == { s[i] : i \in 1..Len(s) }

\* the list s with its elements computed once (equal to s)
List(s) == SubSeq(s, 1, Len(s))

RECURSIVE SeqSum(_)
SeqSum(s) == IF s = <<>> THEN 0 ELSE Head(s) + SeqSum(Tail(s))

RECURSIVE SeqMax(_)
SeqMax(s) == IF Len(s) = 1 THEN s[1]
             ELSE LET m == SeqMax(Tail(s)) IN IF s[1] >= m THEN s[1] ELSE m

RECURSIVE SelectSeqIdx(_, _)
\* the indices i of s, in increasing order, with keep[i]
SelectSeqIdx(n, keep) ==
    IF n = 0 THEN <<>>
    ELSE IF keep[n] THEN Append(SelectSeqIdx(n - 1, keep), n)
         ELSE SelectSeqIdx(n - 1, keep)

\* all sequences without repetition over S, of length at most n
DistinctSeqs(S, n) ==
    UNION { { s \in [1..k -> S] : \A i, j \in 1..k : i # j => s[i] # s[j] } : k \in 0..n }

-----------------------------------------------------------------------------
(* Settings (Quality thresholds), in hundredths *)

DEFAULT_SIMILARITY_THRESHOLD == 80
MIN_AVERAGE_SCORE == 75
MIN_RESULTS_COUNT == 2

-----------------------------------------------------------------------------
(* RAGService.assess_search_quality *)

\* Python's  a / b : an exact quotient, or ZeroDivisionError
PyDiv(a, b) == IF b = 0 THEN Raise("ZeroDivisionError") ELSE Return([num |-> a, den |-> b])

\* q >= c for an exact quotient q and a number c
QuotGE(q, c) == q.num >= c * q.den

assess_metrics(results, thr) ==
    LET matches == results.matches
        scores == [i \in 1..Len(matches) |-> matches[i].score]
        avg == PyDiv(SeqSum(scores), Len(scores))
    IN  IF Raised(avg) THEN avg
        ELSE LET avg_score == avg.value
                 max_score == SeqMax(scores)
                 quality_metrics ==
                     [kind |-> "dict",
                      avg_similarity |-> avg_score,
                      max_similarity |-> max_score,
                      num_results |-> Len(matches),
                      threshold_met |-> max_score >= thr]
                 is_good_enough ==
                     /\ max_score >= thr
                     /\ QuotGE(avg_score, MIN_AVERAGE_SCORE)
                     /\ Len(matches) >= MIN_RESULTS_COUNT
             IN Return([is_good_enough |-> is_good_enough,
                        quality_metrics |-> quality_metrics])

\* the threshold argument: None, or a number
ThresholdNone == [given |-> FALSE]
ThresholdArg(v) == [given |-> TRUE, value |-> v]
ThresholdOf(thr_arg) == IF thr_arg.given THEN thr_arg.value ELSE DEFAULT_SIMILARITY_THRESHOLD

NoResultsFound == [is_good_enough |-> FALSE,
                   quality_metrics |-> [kind |-> "str", text |-> "No results found"]]

assess_unguarded(results, thr_arg) == assess_metrics(results, ThresholdOf(thr_arg))

assess_any_condition(results, thr_arg) ==
    IF results.matches = <<>> THEN Return(NoResultsFound)
    ELSE LET m == assess_metrics(results, ThresholdOf(thr_arg)).value.quality_metrics
         IN  Return([is_good_enough |->
                         \/ m.threshold_met
                         \/ QuotGE(m.avg_similarity, MIN_AVERAGE_SCORE)
                         \/ m.num_results >= MIN_RESULTS_COUNT,
                     quality_metrics |-> m])

assess_search_quality(results, thr_arg) ==
    IF results.matches = <<>> THEN Return(NoResultsFound)
    ELSE assess_metrics(results, ThresholdOf(thr_arg))

-----------------------------------------------------------------------------
(* Python str operations, on sequences of one-character strings *)

UpperSeq == <<"A","B","C","D","E","F","G","H","I","J","K","L","M","N","O","P","Q","R","S","T","U","V","W","X","Y","Z">>
LowerSeq == <<"a","b","c","d","e","f","g","h","i","j","k","l","m","n","o","p","q","r","s","t","u","v","w","x","y","z">>
Upper == Range(UpperSeq)
Lower == Range(LowerSeq)
Letter == Upper \cup Lower
Digit == {"0","1","2","3","4","5","6","7","8","9"}
Whitespace == {" ", "\n", "\t", "\r"}

\* s[i] (1-based), or "" past either end
At(s, i) == IF i >= 1 /\ i <= Len(s) THEN s[i] ELSE ""

\* str.lower()
ToLower(c) == IF c \in Upper THEN LowerSeq[CHOOSE i \in 1..Len(UpperSeq) : UpperSeq[i] = c] ELSE c
StrLower(s) == List([i \in 1..Len(s) |-> ToLower(s[i])])

\* str.isupper(): some cased character, and no lower-case one
StrIsUpper(s) == (\E i \in 1..Len(s) : s[i] \in Upper) /\ (\A i \in 1..Len(s) : s[i] \notin Lower)

\* s[a:b] for 0 <= a, with Python's clipping
Slice(s, a, b) == SubSeq(s, a + 1, IF b > Len(s) THEN Len(s) ELSE b)

\* str.strip(): the 0-based bounds [a, b) of the stripped text, then the text
StripLo(s) == IF \A i \in 1..Len(s) : s[i] \in Whitespace THEN Len(s)
              ELSE (CHOOSE i \in 1..Len(s) : s[i] \notin Whitespace /\ \A j \in 1..(i-1) : s[j] \in Whitespace) - 1
StripHi(s) == IF \A i \in 1..Len(s) : s[i] \in Whitespace THEN Len(s)
              ELSE CHOOSE i \in 1..Len(s) : s[i] \notin Whitespace /\ \A j \in (i+1)..Len(s) : s[j] \in Whitespace
Strip(s) == Slice(s, StripLo(s), StripHi(s))

\* str.startswith / str.endswith / substring test / str.find / str.rfind
StartsWith(s, p) == Len(p) <= Len(s) /\ SubSeq(s, 1, Len(p)) = p
OccursAt(s, p, i) == i + Len(p) <= Len(s) /\ SubSeq(s, i + 1, i + Len(p)) = p
Contains(s, p) == \E i \in 0..Len(s) : OccursAt(s, p, i)
Find(s, p) == IF Contains(s, p)
              THEN CHOOSE i \in 0..Len(s) : OccursAt(s, p, i) /\ \A j \in 0..(i-1) : ~OccursAt(s, p, j)
              ELSE -1
RFind(s, c) == IF \E i \in 1..Len(s) : s[i] = c
               THEN (CHOOSE i \in 1..Len(s) : s[i] = c /\ \A j \in (i+1)..Len(s) : s[j] # c) - 1
               ELSE -1

\* str.split('\n'): the lines, as 0-based [lo, hi) bounds into the text
NewlinePositions(s) == { i \in 1..Len(s) : s[i] = "\n" }
LineStarts(s) == {0} \cup NewlinePositions(s)
LineEnd(s, lo) == IF \E i \in NewlinePositions(s) : i > lo
                  THEN (CHOOSE i \in NewlinePositions(s) : i > lo /\ \A j \in NewlinePositions(s) : j > lo => j >= i) - 1
                  ELSE Len(s)
RECURSIVE SetToSortedSeq(_)
SetToSortedSeq(S) == IF S = {} THEN <<>>
                     ELSE LET m == CHOOSE x \in S : \A y \in S : x <= y
                          IN <<m>> \o SetToSortedSeq(S \ {m})
SplitLines(s) == LET starts == SetToSortedSeq(LineStarts(s))
                 IN List([k \in 1..Len(starts) |-> Slice(s, starts[k], LineEnd(s, starts[k]))])

\* str.split(): the set of maximal runs of non-whitespace characters
WordStarts(s) == { i \in 1..Len(s) : s[i] \notin Whitespace /\ (i = 1 \/ s[i-1] \in Whitespace) }
WordEnd(s, i) == CHOOSE j \in i..Len(s) :
                    /\ \A k \in i..j : s[k] \notin Whitespace
                    /\ (j = Len(s) \/ s[j+1] \in Whitespace)
SplitWords(s) == { SubSeq(s, i, WordEnd(s, i)) : i \in WordStarts(s) }

\* the length of the run of characters of class C starting at s[i]
RECURSIVE RunLen(_, _, _)
RunLen(s, i, C) == IF i >= 1 /\ i <= Len(s) /\ s[i] \in C THEN 1 + RunLen(s, i + 1, C) ELSE 0

-----------------------------------------------------------------------------
(* SectionChunker: header detection *)

SectionNames == { <<"A","b","s","t","r","a","c","t">>,
                  <<"I","n","t","r","o","d","u","c","t","i","o","n">>,
                  <<"C","o","n","c","l","u","s","i","o","n">>,
                  <<"R","e","f","e","r","e","n","c","e","s">>,
                  <<"B","i","b","l","i","o","g","r","a","p","h","y">>,
                  <<"A","p","p","e","n","d","i","x">>,
                  <<"M","e","t","h","o","d","s">>,
                  <<"R","e","s","u","l","t","s">>,
                  <<"D","i","s","c","u","s","s","i","o","n">>,
                  <<"R","e","l","a","t","e","d"," ","W","o","r","k">>,
                  <<"B","a","c","k","g","r","o","u","n","d">> }
ParagraphWords == { <<"t","h","e">>, <<"a","n","d">>, <<"o","r">>, <<"b","u","t">>, <<"i","n">>, <<"o","n">>, <<"a","t">>, <<"t","o">>, <<"f","o","r">> }

\* section_patterns, matched with re.match against the stripped line
MatchNumbered(s) ==
    LET d == RunLen(s, 1, Digit)
        w == RunLen(s, d + 2, Whitespace)
    IN  d >= 1 /\ At(s, d + 1) = "." /\ w >= 1 /\ At(s, d + 2 + w) \in Upper

RECURSIVE SkipDotGroups(_, _)
\* (?:\.\d+)* from position i: the position after the last group
SkipDotGroups(s, i) ==
    IF At(s, i) = "." /\ RunLen(s, i + 1, Digit) >= 1
    THEN SkipDotGroups(s, i + 1 + RunLen(s, i + 1, Digit))
    ELSE i

MatchDotted(s) ==
    LET d1 == RunLen(s, 1, Digit)
        d2 == RunLen(s, d1 + 2, Digit)
        e  == SkipDotGroups(s, d1 + 2 + d2)
        w  == RunLen(s, e, Whitespace)
    IN  d1 >= 1 /\ At(s, d1 + 1) = "." /\ d2 >= 1 /\ w >= 1 /\ At(s, e + w) \in Upper

MatchSectionName(s) == \E n \in SectionNames : StartsWith(s, n)

MatchCapitalized(s) ==
    /\ Len(s) >= 2
    /\ s[1] \in Upper
    /\ \A i \in 2..Len(s) : s[i] \in Letter \cup Whitespace

\* enhanced_patterns
MatchAllCaps(s) ==
    /\ Len(s) >= 2
    /\ s[1] \in Upper
    /\ \A i \in 2..Len(s) : s[i] \in Upper \cup Whitespace

MatchMostlyCaps(s) ==
    /\ Len(s) >= 2
    /\ s[1] \in Upper
    /\ \A i \in 2..Len(s) : s[i] \in Letter \cup Whitespace
    /\ \E i \in 2..Len(s) : s[i] \in Upper

MatchNumberedParen(s) ==
    LET d == RunLen(s, 1, Digit)
        w == RunLen(s, d + 2, Whitespace)
    IN  d >= 1 /\ At(s, d + 1) = ")" /\ w >= 1 /\ At(s, d + 2 + w) \in Upper

_is_likely_header(line) ==
    IF Len(line) < 3 THEN FALSE
    ELSE IF Len(line) > 100 THEN FALSE
    ELSE IF line[Len(line)] \in {".", "!", "?"} THEN FALSE
    ELSE IF \E word \in ParagraphWords : Contains(StrLower(line), word)
         THEN Len(line) < 30 /\ StrIsUpper(line)
         ELSE TRUE

\* the level of the first pattern that makes the line a header, or 0
HeaderLevel(s) ==
    IF MatchNumbered(s) THEN 1
    ELSE IF MatchDotted(s) THEN 2
    ELSE IF MatchSectionName(s) THEN 1
    ELSE IF MatchCapitalized(s) THEN 2
    ELSE IF MatchAllCaps(s) /\ _is_likely_header(s) THEN 1
    ELSE IF MatchMostlyCaps(s) /\ _is_likely_header(s) THEN 2
    ELSE IF MatchNumberedParen(s) /\ _is_likely_header(s) THEN 2
    ELSE 0

\* the permutation that list.sort(key=...) applies: stable, ascending
SortPermAsc(keys) ==
    LET n == Len(keys)
        rank(i) == Cardinality({ j \in 1..n : keys[j] < keys[i] \/ (keys[j] = keys[i] /\ j < i) }) + 1
    IN  List([r \in 1..n |-> CHOOSE i \in 1..n : rank(i) = r])

\* the same with reverse=True: descending, equal keys keep their order
SortPermDesc(keys) ==
    LET n == Len(keys)
        rank(i) == Cardinality({ j \in 1..n : keys[j] > keys[i] \/ (keys[j] = keys[i] /\ j < i) }) + 1
    IN  List([r \in 1..n |-> CHOOSE i \in 1..n : rank(i) = r])

_find_section_positions(text) ==
    LET lines == SplitLines(text)
        isHeader == [k \in 1..Len(lines) |->
                        Strip(lines[k]) # <<>> /\ HeaderLevel(Strip(lines[k])) > 0]
        found == SelectSeqIdx(Len(lines), isHeader)
        sections == List([k \in 1..Len(found) |->
                        [header |-> Strip(lines[found[k]]),
                         start_pos |-> Find(text, lines[found[k]]),
                         level |-> HeaderLevel(Strip(lines[found[k]]))]])
        perm == SortPermAsc(List([k \in 1..Len(sections) |-> sections[k].start_pos]))
    IN  List([k \in 1..Len(sections) |-> sections[perm[k]]])

-----------------------------------------------------------------------------
(* SectionChunker: chunks *)

TextChunk(content, header, level, start, end) ==
    [content |-> content, section_header |-> header, section_level |-> level,
     start_index |-> start, end_index |-> end, chunk_size |-> Len(content)]

\* chunks that all run to the end of the text
_create_chunks_to_end_of_text(text, section_positions) ==
    List([i \in 1..Len(section_positions) |->
        TextChunk(Strip(Slice(text, section_positions[i].start_pos, Len(text))),
                  section_positions[i].header, section_positions[i].level,
                  section_positions[i].start_pos, Len(text))])

_create_chunks_from_sections(text, section_positions) ==
    List([i \in 1..Len(section_positions) |->
        LET start_pos == section_positions[i].start_pos
            end_pos == IF i + 1 <= Len(section_positions)
                       THEN section_positions[i + 1].start_pos
                       ELSE Len(text)
        IN  TextChunk(Strip(Slice(text, start_pos, end_pos)),
                      section_positions[i].header, section_positions[i].level,
                      start_pos, end_pos)])

Max3(a, b, c) == IF a >= b /\ a >= c THEN a ELSE IF b >= c THEN b ELSE c
Min2(a, b) == IF a <= b THEN a ELSE b
Max2(a, b) == IF a >= b THEN a ELSE b

\* a cut that takes the rest of the content, whatever the maximum size
CutAtEndOfContent(content, current_pos, max_chunk_size) == Len(content)

\* a cut in front of the sentence ending, also when it is the first character
CutBeforeSentenceEnd(content, current_pos, max_chunk_size) ==
    LET end_pos == Min2(current_pos + max_chunk_size, Len(content))
    IN  IF end_pos < Len(content)
        THEN LET search_start == Max2(current_pos, end_pos - 100)
                 search_text == Slice(content, search_start, end_pos)
                 cut_point == Max3(RFind(search_text, "."), RFind(search_text, "!"),
                                   RFind(search_text, "?"))
             IN  IF cut_point >= 0 THEN search_start + cut_point ELSE end_pos
        ELSE end_pos

\* where the loop of _split_chunk_arbitrarily / _fallback_chunking ends the piece
\* that starts at current_pos
CutEnd(content, current_pos, max_chunk_size) ==
    LET end_pos == Min2(current_pos + max_chunk_size, Len(content))
    IN  IF end_pos < Len(content)
        THEN LET search_start == Max2(current_pos, end_pos - 100)
                 search_text == Slice(content, search_start, end_pos)
                 cut_point == Max3(RFind(search_text, "."), RFind(search_text, "!"),
                                   RFind(search_text, "?"))
             IN  IF cut_point > 0 THEN search_start + cut_point + 1 ELSE end_pos
        ELSE end_pos

RECURSIVE SplitLoopUnstripped(_, _, _, _, _, _)
\* the loop without .strip() on the piece
SplitLoopUnstripped(content, header, level, base, current_pos, max_chunk_size) ==
    IF current_pos < Len(content)
    THEN LET end_pos == CutEnd(content, current_pos, max_chunk_size)
             sub_content == Slice(content, current_pos, end_pos)
             rest == SplitLoopUnstripped(content, header, level, base, end_pos, max_chunk_size)
         IN  IF sub_content # <<>>
             THEN <<TextChunk(sub_content, header, level, base + current_pos, base + end_pos)>> \o rest
             ELSE rest
    ELSE <<>>

RECURSIVE SplitLoop(_, _, _, _, _, _)
SplitLoop(content, header, level, base, current_pos, max_chunk_size) ==
    IF current_pos < Len(content)
    THEN LET end_pos == CutEnd(content, current_pos, max_chunk_size)
             sub_content == Strip(Slice(content, current_pos, end_pos))
             rest == SplitLoop(content, header, level, base, end_pos, max_chunk_size)
         IN  IF sub_content # <<>>
             THEN <<TextChunk(sub_content, header, level, base + current_pos, base + end_pos)>> \o rest
             ELSE rest
    ELSE <<>>

_split_chunk_arbitrarily(chunk, max_chunk_size) ==
    SplitLoop(chunk.content, chunk.section_header, chunk.section_level,
              chunk.start_index, 0, max_chunk_size)

\* a _split_large_chunks that splits nothing
_keep_large_chunks(chunks, max_chunk_size) == chunks

RECURSIVE _split_large_chunks(_, _)
_split_large_chunks(chunks, max_chunk_size) ==
    IF chunks = <<>> THEN <<>>
    ELSE (IF Head(chunks).chunk_size <= max_chunk_size
          THEN <<Head(chunks)>>
          ELSE _split_chunk_arbitrarily(Head(chunks), max_chunk_size))
         \o _split_large_chunks(Tail(chunks), max_chunk_size)

\* a filter that keeps the chunks of at most min_chunk_size characters
_filter_large_chunks(chunks, min_chunk_size) ==
    SelectSeq(chunks, LAMBDA c : c.chunk_size <= min_chunk_size)

_filter_tiny_chunks(chunks, min_chunk_size) ==
    SelectSeq(chunks, LAMBDA c : c.chunk_size >= min_chunk_size)

UnknownSection == <<"U","n","k","n","o","w","n"," ","S","e","c","t","i","o","n">>

_fallback_chunking(text, max_chunk_size) ==
    SplitLoop(text, UnknownSection, 1, 0, 0, max_chunk_size)

\* a chunk_paper that returns the stripped text as one chunk
chunk_paper_as_one_chunk(text, max_chunk_size, min_chunk_size) ==
    <<TextChunk(Strip(text), UnknownSection, 1, 0, Len(text))>>

\* a chunk_paper that filters the fallback's chunks too
chunk_paper_filtering_fallback(text, max_chunk_size, min_chunk_size) ==
    IF text = <<>> THEN <<>>
    ELSE LET section_positions == _find_section_positions(text)
         IN  _filter_tiny_chunks(
                 IF section_positions = <<>>
                 THEN _fallback_chunking(text, max_chunk_size)
                 ELSE _split_large_chunks(
                          _create_chunks_from_sections(text, section_positions),
                          max_chunk_size),
                 min_chunk_size)

\* a chunk_paper that filters nothing
chunk_paper_unfiltered(text, max_chunk_size, min_chunk_size) ==
    IF text = <<>> THEN <<>>
    ELSE LET section_positions == _find_section_positions(text)
         IN  IF section_positions = <<>>
             THEN _fallback_chunking(text, max_chunk_size)
             ELSE _split_large_chunks(
                      _create_chunks_from_sections(text, section_positions),
                      max_chunk_size)

chunk_paper(text, max_chunk_size, min_chunk_size) ==
    IF text = <<>> THEN <<>>
    ELSE LET section_positions == _find_section_positions(text)
         IN  IF section_positions = <<>>
             THEN _fallback_chunking(text, max_chunk_size)
             ELSE _filter_tiny_chunks(
                      _split_large_chunks(
                          _create_chunks_from_sections(text, section_positions),
                          max_chunk_size),
                      min_chunk_size)

-----------------------------------------------------------------------------
(* Paper (models/paper.py) and the documents of the model *)

Paper(id, title, authors, summary, published, pdf_url, text_content, pdf_path, score) ==
    [id |-> id, title |-> title, authors |-> authors, summary |-> summary,
     published |-> published, pdf_url |-> pdf_url, text_content |-> text_content,
     pdf_path |-> pdf_path, score |-> score]

Ids(ps) == [i \in 1..Len(ps) |-> ps[i].id]

-----------------------------------------------------------------------------
(* RAGService._score_chunks_by_relevance, scores in thousandths *)

\* a score without the length penalty
RelevanceScoreNoPenalty(q, chunk) ==
    LET query_words == SplitWords(StrLower(q))
        header_matches == Cardinality(query_words \cap SplitWords(StrLower(chunk.section_header)))
        content_matches == Cardinality(query_words \cap SplitWords(StrLower(chunk.content)))
        level_bonus == Max2(0, 3 - chunk.section_level) * 100
    IN  Max2(0, header_matches * 400 + content_matches * 10 + level_bonus)

\* a score without the two max(0, ...) clamps
RelevanceScoreUnclamped(q, chunk) ==
    LET query_words == SplitWords(StrLower(q))
        header_matches == Cardinality(query_words \cap SplitWords(StrLower(chunk.section_header)))
        content_matches == Cardinality(query_words \cap SplitWords(StrLower(chunk.content)))
        level_bonus == (3 - chunk.section_level) * 100
        score == header_matches * 400 + content_matches * 10 + level_bonus
    IN  IF chunk.chunk_size > 3000 THEN (score * 8) \div 10 ELSE score

RelevanceScore(q, chunk) ==
    LET query_words == SplitWords(StrLower(q))
        header_matches == Cardinality(query_words \cap SplitWords(StrLower(chunk.section_header)))
        content_matches == Cardinality(query_words \cap SplitWords(StrLower(chunk.content)))
        level_bonus == Max2(0, 3 - chunk.section_level) * 100
        score == header_matches * 400 + content_matches * 10 + level_bonus
        penalised == IF chunk.chunk_size > 3000 THEN (score * 8) \div 10 ELSE score
    IN  Max2(0, penalised)

WithScore(chunk, s) ==
    [paper_id |-> chunk.paper_id, paper_title |-> chunk.paper_title,
     paper_authors |-> chunk.paper_authors, paper_summary |-> chunk.paper_summary,
     pdf_url |-> chunk.pdf_url, section_header |-> chunk.section_header,
     section_level |-> chunk.section_level, content |-> chunk.content,
     chunk_size |-> chunk.chunk_size, start_index |-> chunk.start_index,
     end_index |-> chunk.end_index, relevance_score |-> s]

\* list.sort(key=lambda x: x['relevance_score'], reverse=True)
SortByRelevance(chunks) ==
    LET perm == SortPermDesc(List([i \in 1..Len(chunks) |-> chunks[i].relevance_score]))
    IN  List([i \in 1..Len(chunks) |-> chunks[perm[i]]])

\* a scorer that also sorts its output by score
_score_and_sort_chunks(q, chunks) ==
    SortByRelevance(List([i \in 1..Len(chunks) |-> WithScore(chunks[i], RelevanceScore(q, chunks[i]))]))

_score_chunks_by_relevance(q, chunks) ==
    List([i \in 1..Len(chunks) |-> WithScore(chunks[i], RelevanceScore(q, chunks[i]))])

-----------------------------------------------------------------------------
(* RAGService._select_diverse_top_chunks *)

RECURSIVE FirstPass(_, _, _, _, _)
\* the first loop, from index i on, with the chunks selected and the papers seen so far
FirstPass(scored_chunks, i, selected_chunks, paper_ids_seen, max_chunks) ==
    IF i > Len(scored_chunks) \/ Len(selected_chunks) >= max_chunks
    THEN selected_chunks
    ELSE IF scored_chunks[i].paper_id \notin paper_ids_seen
         THEN FirstPass(scored_chunks, i + 1, Append(selected_chunks, scored_chunks[i]),
                        paper_ids_seen \cup {scored_chunks[i].paper_id}, max_chunks)
         ELSE FirstPass(scored_chunks, i + 1, selected_chunks, paper_ids_seen, max_chunks)

\* a selector that takes the first max_chunks chunks, whatever their papers
_select_top_chunks(scored_chunks, max_chunks) ==
    IF Len(scored_chunks) <= max_chunks
    THEN scored_chunks
    ELSE SortByRelevance(SubSeq(scored_chunks, 1, Max2(0, max_chunks)))

\* a selector whose second pass does not leave out the chunks already selected
_select_refilling_top_chunks(scored_chunks, max_chunks) ==
    IF Len(scored_chunks) <= max_chunks
    THEN scored_chunks
    ELSE LET first == FirstPass(scored_chunks, 1, <<>>, {}, max_chunks)
             remaining_slots == max_chunks - Len(first)
         IN  SortByRelevance(IF remaining_slots > 0
                             THEN first \o SubSeq(scored_chunks, 1,
                                                  Min2(remaining_slots, Len(scored_chunks)))
                             ELSE first)

\* a selector without the final sort
_select_unsorted_top_chunks(scored_chunks, max_chunks) ==
    IF Len(scored_chunks) <= max_chunks
    THEN scored_chunks
    ELSE LET first == FirstPass(scored_chunks, 1, <<>>, {}, max_chunks)
             remaining_slots == max_chunks - Len(first)
             unselected_chunks == SelectSeq(scored_chunks, LAMBDA c : c \notin Range(first))
         IN  IF remaining_slots > 0
             THEN first \o SubSeq(unselected_chunks, 1,
                                  Min2(remaining_slots, Len(unselected_chunks)))
             ELSE first

_select_diverse_top_chunks(scored_chunks, max_chunks) ==
    IF Len(scored_chunks) <= max_chunks
    THEN scored_chunks
    ELSE LET first == FirstPass(scored_chunks, 1, <<>>, {}, max_chunks)
             remaining_slots == max_chunks - Len(first)
             unselected_chunks == SelectSeq(scored_chunks, LAMBDA c : c \notin Range(first))
             filled == IF remaining_slots > 0
                       THEN first \o SubSeq(unselected_chunks, 1,
                                            Min2(remaining_slots, Len(unselected_chunks)))
                       ELSE first
         IN  SortByRelevance(filled)

-----------------------------------------------------------------------------
(* RAGService.find_relevant_chunks *)

ChunkerMaxSize == 2000
ChunkerMinSize == 100
DefaultMaxChunks == 5

\* PDFService has no extract_raw_text_from_pdf: the call raises AttributeError
extract_raw_text_from_pdf(pdf_path) == Raise("AttributeError")

\* the text handed to the chunker for a paper (Paper has no raw_text attribute)
RawTextOf(paper) ==
    IF paper.pdf_path # <<>>
    THEN LET r == extract_raw_text_from_pdf(paper.pdf_path)
         IN  IF Raised(r) THEN paper.text_content ELSE r.value
    ELSE paper.text_content

ChunkData(paper, chunk) ==
    [paper_id |-> paper.id, paper_title |-> paper.title, paper_authors |-> paper.authors,
     paper_summary |-> paper.summary, pdf_url |-> paper.pdf_url,
     section_header |-> chunk.section_header, section_level |-> chunk.section_level,
     content |-> chunk.content, chunk_size |-> chunk.chunk_size,
     start_index |-> chunk.start_index, end_index |-> chunk.end_index]

RECURSIVE AllChunks(_)
\* the loop over papers: the chunk records of every paper with text, in order
AllChunks(ps) ==
    IF ps = <<>> THEN <<>>
    ELSE LET paper == Head(ps)
             chunks == chunk_paper(RawTextOf(paper), ChunkerMaxSize, ChunkerMinSize)
         IN  (IF paper.text_content = <<>> THEN <<>>
              ELSE List([i \in 1..Len(chunks) |-> ChunkData(paper, chunks[i])]))
             \o AllChunks(Tail(ps))

\* the papers find_relevant_chunks passes through the chunker
ChunkedPapers(ps) == SelectSeq(ps, LAMBDA p : p.text_content # <<>>)

\* a find_relevant_chunks that returns every scored chunk, without the selection
find_relevant_chunks_unselected(q, ps, max_chunks) ==
    IF ps = <<>> THEN <<>>
    ELSE SortByRelevance(_score_chunks_by_relevance(q, AllChunks(ps)))

find_relevant_chunks(q, ps, max_chunks) ==
    IF ps = <<>> THEN <<>>
    ELSE _select_diverse_top_chunks(
             SortByRelevance(_score_chunks_by_relevance(q, AllChunks(ps))), max_chunks)

-----------------------------------------------------------------------------
(* PromptBuilder (llm_integration/services/prompt_builder.py) *)

ContextLimit == 8000
ChunkTextOverhead == 82

RECURSIVE Digits(_)
Digits(n) == IF n < 10 THEN 1 ELSE 1 + Digits(n \div 10)

RECURSIVE JoinLen(_)
\* len(', '.join(xs))
JoinLen(xs) == IF xs = <<>> THEN 0
               ELSE IF Len(xs) = 1 THEN Len(xs[1])
               ELSE Len(xs[1]) + 2 + JoinLen(Tail(xs))

\* len(chunk_text) for the i-th chunk
ChunkTextLen(i, chunk) ==
    ChunkTextOverhead + 2 * Digits(i) + Len(chunk.paper_title) + JoinLen(chunk.paper_authors)
    + Len(chunk.section_header) + Digits(chunk.section_level) + Len(chunk.content)

RECURSIVE FormatLoop(_, _, _)
\* the chunks _format_chunks_for_context keeps, from index i on
FormatLoop(chunks, i, total_length) ==
    IF i > Len(chunks) THEN <<>>
    ELSE IF total_length + ChunkTextLen(i, chunks[i]) > ContextLimit THEN <<>>
    ELSE <<[i |-> i, paper_title |-> chunks[i].paper_title,
            paper_authors |-> chunks[i].paper_authors,
            section_header |-> chunks[i].section_header,
            section_level |-> chunks[i].section_level,
            content |-> chunks[i].content]>>
         \o FormatLoop(chunks, i + 1, total_length + ChunkTextLen(i, chunks[i]))

_format_chunks_for_context(chunks) ==
    IF chunks = <<>> THEN <<>> ELSE FormatLoop(chunks, 1, 0)

\* a prompt that is the query itself
RawPrompt(q) == [template |-> "", paper_context |-> <<>>, user_query |-> q]

build_rag_prompt_from_chunks(q, chunks) ==
    IF chunks = <<>> THEN RawPrompt(q)
    ELSE [template |-> "RAG_PROMPT_TEMPLATE",
          paper_context |-> _format_chunks_for_context(chunks),
          user_query |-> q]

-----------------------------------------------------------------------------
(* The documents, queries and texts of the model *)

PaperIds == {"1", "2", "3"}
MetaFields == <<"title", "authors", "summary", "pdf_url">>

Title(id) == <<"T", id>>
Authors(id) == << <<"A", id>> >>
Summary(id) == <<"S", id>>
PdfUrl(id) == <<"h", "/", id>>
PdfPath(id) == <<"d", "/", id>>
Published == <<"2", "0", "2", "4">>

\* an extracted and cleaned text: no newline, single spaces, stripped
TextHeaderOnly == <<"R","e","s","u","l","t","s"," ","a","b">>
TextPlain == <<"a","b"," ","c","d","."," ","e","f">>
ExtractedTexts == { <<>>, TextHeaderOnly, TextPlain }

Queries == { <<"a","b">>, <<"A","b"," ","x">> }
Responses == { "answer" }
SearchScores == { 30, 80, 90 }

\* the metadata dict add_papers_to_vector_db writes for a paper
FullMetadata(id) == [title |-> Title(id), authors |-> Authors(id),
                     summary |-> Summary(id), pdf_url |-> PdfUrl(id)]
Restrict(f, S) == [k \in S |-> f[k]]
\* the metadata dicts an index entry may carry
MetadataShapes == { Range(MetaFields), Range(MetaFields) \ {"title"} }
StoredMetadata(id) == { Restrict(FullMetadata(id), S) : S \in MetadataShapes }
Stores == UNION { { st \in [S -> UNION { StoredMetadata(id) : id \in S }] :
                       \A id \in S : st[id] \in StoredMetadata(id) } : S \in SUBSET PaperIds }

-----------------------------------------------------------------------------
(* VectorService (ragpipe/services/vector_service.py) *)

MaxResults == 5

\* index.upsert of one (id, embedding, metadata) vector per paper
add_papers_to_vector_db(st, ps) ==
    [id \in DOMAIN st \cup Range(Ids(ps)) |->
        IF id \in Range(Ids(ps))
        THEN LET p == ps[CHOOSE i \in 1..Len(ps) : ps[i].id = id /\ \A j \in (i+1)..Len(ps) : ps[j].id # id]
             IN  [title |-> p.title, authors |-> p.authors,
                  summary |-> p.summary, pdf_url |-> p.pdf_url]
        ELSE st[id]]

\* the score lists of length n, by non-increasing score
ScoreLists(n) == { sc \in [1..n -> SearchScores] : \A i \in 2..n : sc[i-1] >= sc[i] }

\* the responses index.query may give: the top_k nearest entries of the index
\* (all of them when it holds fewer), each with its metadata, best first
QueryResponses(st, top_k) ==
    LET n == Min2(top_k, Cardinality(DOMAIN st))
    IN  UNION { { [matches |-> [i \in 1..n |->
                      [id |-> ids[i], score |-> sc[i], metadata |-> st[ids[i]]]]] :
                  sc \in ScoreLists(n) } :
                ids \in { s \in DistinctSeqs(DOMAIN st, n) : Len(s) = n } }

\* metadata[key], or KeyError
MissingField(match) == \E k \in 1..Len(MetaFields) : MetaFields[k] \notin DOMAIN match.metadata

PaperOfMatch(match) ==
    Paper(match.id, match.metadata["title"], match.metadata["authors"],
          match.metadata["summary"], <<>>, match.metadata["pdf_url"], <<>>, <<>>, match.score)

\* a conversion that leaves the score of each Paper at its default
query_response_to_papers_no_score(results) ==
    IF \E i \in 1..Len(results.matches) : MissingField(results.matches[i])
    THEN Raise("KeyError")
    ELSE Return([i \in 1..Len(results.matches) |->
                    [PaperOfMatch(results.matches[i]) EXCEPT !.score = 0]])

query_response_to_papers(results) ==
    IF \E i \in 1..Len(results.matches) : MissingField(results.matches[i])
    THEN Raise("KeyError")
    ELSE Return([i \in 1..Len(results.matches) |-> PaperOfMatch(results.matches[i])])

-----------------------------------------------------------------------------
(* ArxivService.search_papers and PDFService *)

ArxivPaper(id) == Paper(id, Title(id), Authors(id), Summary(id), Published, PdfUrl(id), <<>>, <<>>, 0)

\* arXiv's entries for a query, most relevant first (sortBy=relevance)
ArxivRanking(q) == IF Len(q) = 2 THEN <<"1", "2", "3">> ELSE <<"3", "1", "2">>

\* the answers the arXiv API may give: the first entries of the ranking, at most max_results
ArxivAnswers(q, max_results) ==
    { [ok |-> TRUE, entries |-> [i \in 1..n |-> ArxivPaper(ArxivRanking(q)[i])]] :
        n \in 0..Min2(max_results, Len(ArxivRanking(q))) }
ArxivUnreachable == [ok |-> FALSE]

\* search_papers: the parsed entries, or [] when urlopen or the parse raises
search_papers(answer) == IF answer.ok THEN answer.entries ELSE <<>>

\* what downloading and extracting one paper may give: download_paper_pdf
\* returns None, or a path whose text extract_text_from_pdf returns ("" on error)
DownloadOutcomesOf(texts) == { [pdf_path |-> "None"] }
                             \cup { [pdf_path |-> "path", text |-> t] : t \in texts }
DownloadOutcomes == DownloadOutcomesOf(ExtractedTexts)

RECURSIVE process_loop(_, _, _)
process_loop(ps, outcomes, i) ==
    IF i > Len(ps) THEN <<>>
    ELSE IF outcomes[i].pdf_path # "None"
         THEN <<[ps[i] EXCEPT !.pdf_path = PdfPath(ps[i].id),
                              !.text_content = outcomes[i].text]>>
              \o process_loop(ps, outcomes, i + 1)
         ELSE process_loop(ps, outcomes, i + 1)

\* a batch that stops at the first failed download
RECURSIVE process_loop_aborting(_, _, _)
process_loop_aborting(ps, outcomes, i) ==
    IF i > Len(ps) \/ outcomes[i].pdf_path = "None" THEN <<>>
    ELSE <<[ps[i] EXCEPT !.pdf_path = PdfPath(ps[i].id),
                         !.text_content = outcomes[i].text]>>
         \o process_loop_aborting(ps, outcomes, i + 1)

process_papers_aborting(ps, outcomes) == process_loop_aborting(ps, outcomes, 1)

process_papers(ps, outcomes) == process_loop(ps, outcomes, 1)

-----------------------------------------------------------------------------
(* RAGOrchestrator._ensure_papers_have_content *)

RECURSIVE ensure_loop(_, _, _)
ensure_loop(ps, outcomes, i) ==
    IF i > Len(ps) THEN <<>>
    ELSE (IF ps[i].text_content # <<>> THEN <<ps[i]>>
          ELSE IF ps[i].pdf_url # <<>>
               THEN IF outcomes[i].pdf_path # "None" /\ outcomes[i].text # <<>>
                    THEN <<[ps[i] EXCEPT !.pdf_path = PdfPath(ps[i].id),
                                         !.text_content = outcomes[i].text]>>
                    ELSE <<>>
               ELSE <<>>)
         \o ensure_loop(ps, outcomes, i + 1)

\* an orchestrator that keeps the papers that have text and downloads nothing
_ensure_papers_without_download(ps, outcomes) ==
    SelectSeq(ps, LAMBDA p : p.text_content # <<>>)

_ensure_papers_have_content(ps, outcomes) == ensure_loop(ps, outcomes, 1)

\* the papers _ensure_papers_have_content downloads
NeedsDownload(p) == p.text_content = <<>> /\ p.pdf_url # <<>>

-----------------------------------------------------------------------------
(* One call of RAGOrchestrator.process_user_query, step by step.  The run's  *)
(* log records the collaborator calls in the order they are made.            *)

MaxFetch == 2
MaxStored == 2

Event(op) == [op |-> op]
DownloadEvents(by, ps, outcomes, needed) ==
    LET idx == SelectSeqIdx(Len(ps), needed)
    IN  [k \in 1..Len(idx) |->
            [op |-> "download", by |-> by, id |-> ps[idx[k]].id, outcome |-> outcomes[idx[k]]]]
ChunkEvents(ps) == [k \in 1..Len(ps) |-> [op |-> "chunk_paper", id |-> ps[k].id]]

Init ==
    /\ store \in { st \in Stores : Cardinality(DOMAIN st) <= MaxStored }
    /\ store0 = store
    /\ pc = "idle"
    /\ query = <<>>
    /\ use_rag = FALSE
    /\ threshold = ThresholdNone
    /\ query_response = [matches |-> <<>>]
    /\ gate = NoValue
    /\ papers = <<>>
    /\ ingested = <<>>
    /\ relevant_papers = <<>>
    /\ processed_papers = <<>>
    /\ relevant_chunks = <<>>
    /\ prompt = NoValue
    /\ result = NoValue
    /\ log = <<>>
    /\ NoUnitCall

\* process_user_query(user_id, q, rag) is called
Submit ==
    /\ pc = "idle"
    /\ \E q \in Queries, rag \in BOOLEAN :
          /\ query' = q
          /\ use_rag' = rag
          /\ pc' = IF rag THEN "search_vector_db" ELSE "generate_response"
          /\ prompt' = IF rag THEN prompt ELSE RawPrompt(q)
    /\ UNCHANGED << store, store0, threshold, query_response, gate, papers, ingested,
                    relevant_papers, processed_papers, relevant_chunks, result, log >>
    /\ UNCHANGED unit_vars

\* a search that swallows the failure of the vector store and reports no match
SearchVectorDbSwallowsFailure ==
    /\ pc = "search_vector_db"
    /\ \/ \E r \in QueryResponses(store, MaxResults) :
             /\ query_response' = r
             /\ log' = Append(log, [op |-> "search_vector_db", ok |-> TRUE])
       \/ /\ query_response' = [matches |-> <<>>]
          /\ log' = Append(log, [op |-> "search_vector_db", ok |-> FALSE])
    /\ pc' = "assess_search_quality"
    /\ UNCHANGED << store, store0, query, use_rag, threshold, gate, papers, ingested,
                    relevant_papers, processed_papers, relevant_chunks, prompt, result >>
    /\ UNCHANGED unit_vars

\* rag_query: query_response = self.vector_service.search_vector_db(...)
SearchVectorDb ==
    /\ pc = "search_vector_db"
    /\ \/ \E r \in QueryResponses(store, MaxResults) :
             /\ query_response' = r
             /\ log' = Append(log, [op |-> "search_vector_db", ok |-> TRUE])
             /\ pc' = "assess_search_quality"
             /\ UNCHANGED result
       \/ /\ log' = Append(log, [op |-> "search_vector_db", ok |-> FALSE])
          /\ result' = Raise("VectorStoreError")
          /\ pc' = "raised"
          /\ UNCHANGED query_response
    /\ UNCHANGED << store, store0, query, use_rag, threshold, gate, papers, ingested,
                    relevant_papers, processed_papers, relevant_chunks, prompt >>
    /\ UNCHANGED unit_vars

\* rag_query: is_good_enough, quality_metrics = self.assess_search_quality(...)
AssessSearchQuality ==
    /\ pc = "assess_search_quality"
    /\ gate' = assess_search_quality(query_response, threshold)
    /\ IF Raised(gate')
       THEN pc' = "raised" /\ result' = gate'
       ELSE /\ pc' = IF gate'.value.is_good_enough
                     THEN "query_response_to_papers" ELSE "search_papers"
            /\ UNCHANGED result
    /\ UNCHANGED << store, store0, query, use_rag, threshold, query_response, papers, ingested,
                    relevant_papers, processed_papers, relevant_chunks, prompt, log >>
    /\ UNCHANGED unit_vars

\* process_user_query: relevant_papers = rag_query(query); if relevant_papers: ...
AfterRagQuery(rp) ==
    /\ relevant_papers' = rp
    /\ IF rp # <<>>
       THEN pc' = "_ensure_papers_have_content" /\ UNCHANGED prompt
       ELSE pc' = "generate_response" /\ prompt' = RawPrompt(query)

\* rag_query, is_good_enough: return query_response_to_papers(query_response)
QueryResponseToPapers ==
    /\ pc = "query_response_to_papers"
    /\ LET r == query_response_to_papers(query_response)
       IN  IF Raised(r)
           THEN /\ pc' = "raised"
                /\ result' = r
                /\ UNCHANGED << relevant_papers, prompt >>
           ELSE AfterRagQuery(r.value) /\ UNCHANGED result
    /\ UNCHANGED << store, store0, query, use_rag, threshold, query_response, gate, papers,
                    ingested, processed_papers, relevant_chunks, log >>
    /\ UNCHANGED unit_vars

\* rag_query, else: papers = self.arxiv_service.search_papers(...), with at most
\* n entries in arXiv's answer
SearchPapersUpTo(n) ==
    /\ pc = "search_papers"
    /\ \E answer \in { a \in ArxivAnswers(query, MaxResults) : Len(a.entries) <= n }
                       \cup {ArxivUnreachable} :
          /\ papers' = search_papers(answer)
          /\ log' = Append(log, [op |-> "search_papers", ok |-> answer.ok])
    /\ pc' = "process_papers"
    /\ UNCHANGED << store, store0, query, use_rag, threshold, query_response, gate, ingested,
                    relevant_papers, processed_papers, relevant_chunks, prompt, result >>
    /\ UNCHANGED unit_vars

SearchPapers == SearchPapersUpTo(MaxFetch)

\* a rag_query that returns the matches of the search when no paper was processed
ProcessPapersFallsBackToMatches ==
    /\ pc = "process_papers"
    /\ \E outcomes \in [1..Len(papers) -> DownloadOutcomes] :
          /\ ingested' = process_papers(papers, outcomes)
          /\ log' = log \o DownloadEvents("process_papers", papers, outcomes,
                                          [i \in 1..Len(papers) |-> TRUE])
    /\ IF ingested' # <<>>
       THEN /\ pc' = "add_papers_to_vector_db"
            /\ UNCHANGED << relevant_papers, prompt >>
       ELSE AfterRagQuery([i \in 1..Len(query_response.matches) |->
                              ArxivPaper(query_response.matches[i].id)])
    /\ UNCHANGED << store, store0, query, use_rag, threshold, query_response, gate, papers,
                    processed_papers, relevant_chunks, result >>
    /\ UNCHANGED unit_vars

\* rag_query: processed_papers = self.pdf_service.process_papers(papers);
\* an empty list is returned at once
\* (the downloads give one of the outcomes outs)
ProcessPapersFrom(outs) ==
    /\ pc = "process_papers"
    /\ \E outcomes \in [1..Len(papers) -> outs] :
          /\ ingested' = process_papers(papers, outcomes)
          /\ log' = log \o DownloadEvents("process_papers", papers, outcomes,
                                          [i \in 1..Len(papers) |-> TRUE])
    /\ IF ingested' # <<>>
       THEN /\ pc' = "add_papers_to_vector_db"
            /\ UNCHANGED << relevant_papers, prompt >>
       ELSE AfterRagQuery(ingested')
    /\ UNCHANGED << store, store0, query, use_rag, threshold, query_response, gate, papers,
                    processed_papers, relevant_chunks, result >>
    /\ UNCHANGED unit_vars

ProcessPapers == ProcessPapersFrom(DownloadOutcomes)

\* a rag_query that returns the processed papers without upserting them
AddPapersToVectorDbSkipped ==
    /\ pc = "add_papers_to_vector_db"
    /\ AfterRagQuery(ingested)
    /\ UNCHANGED << store, store0, query, use_rag, threshold, query_response, gate, papers,
                    ingested, processed_papers, relevant_chunks, result, log >>
    /\ UNCHANGED unit_vars

\* rag_query: self.vector_service.add_papers_to_vector_db(processed_papers); return
AddPapersToVectorDb ==
    /\ pc = "add_papers_to_vector_db"
    /\ \/ /\ store' = add_papers_to_vector_db(store, ingested)
          /\ log' = Append(log, [op |-> "upsert", ids |-> Ids(ingested)])
          /\ AfterRagQuery(ingested)
          /\ UNCHANGED result
       \/ /\ log' = Append(log, [op |-> "upsert_failed", ids |-> Ids(ingested)])
          /\ result' = Raise("VectorStoreError")
          /\ pc' = "raised"
          /\ UNCHANGED << store, relevant_papers, prompt >>
    /\ UNCHANGED << store0, query, use_rag, threshold, query_response, gate, papers, ingested,
                    processed_papers, relevant_chunks >>
    /\ UNCHANGED unit_vars

\* process_user_query: processed_papers = self._ensure_papers_have_content(relevant_papers)
EnsurePapersHaveContentFrom(outs) ==
    /\ pc = "_ensure_papers_have_content"
    /\ \E outcomes \in [1..Len(relevant_papers) -> outs] :
          /\ \A i \in 1..Len(relevant_papers) :
                ~NeedsDownload(relevant_papers[i]) => outcomes[i] = [pdf_path |-> "None"]
          /\ processed_papers' = _ensure_papers_have_content(relevant_papers, outcomes)
          /\ log' = log \o DownloadEvents("_ensure_papers_have_content", relevant_papers, outcomes,
                                          [i \in 1..Len(relevant_papers) |->
                                              NeedsDownload(relevant_papers[i])])
    /\ IF processed_papers' # <<>>
       THEN pc' = "find_relevant_chunks" /\ UNCHANGED prompt
       ELSE pc' = "generate_response" /\ prompt' = RawPrompt(query)
    /\ UNCHANGED << store, store0, query, use_rag, threshold, query_response, gate, papers,
                    ingested, relevant_papers, relevant_chunks, result >>
    /\ UNCHANGED unit_vars

EnsurePapersHaveContent == EnsurePapersHaveContentFrom(DownloadOutcomes)

\* an orchestrator that builds the augmented prompt whether or not a chunk was selected
FindRelevantChunksAlwaysAugments ==
    /\ pc = "find_relevant_chunks"
    /\ relevant_chunks' = find_relevant_chunks(query, processed_papers, DefaultMaxChunks)
    /\ log' = log \o ChunkEvents(ChunkedPapers(processed_papers))
    /\ prompt' = [template |-> "RAG_PROMPT_TEMPLATE",
                  paper_context |-> _format_chunks_for_context(relevant_chunks'),
                  user_query |-> query]
    /\ pc' = "generate_response"
    /\ UNCHANGED << store, store0, query, use_rag, threshold, query_response, gate, papers,
                    ingested, relevant_papers, processed_papers, result >>
    /\ UNCHANGED unit_vars

\* process_user_query: relevant_chunks = self.rag_service.find_relevant_chunks(...),
\* then the prompt is built from the chunks, or is the query when there are none
FindRelevantChunks ==
    /\ pc = "find_relevant_chunks"
    /\ relevant_chunks' = find_relevant_chunks(query, processed_papers, DefaultMaxChunks)
    /\ log' = log \o ChunkEvents(ChunkedPapers(processed_papers))
    /\ prompt' = IF relevant_chunks' # <<>>
                 THEN build_rag_prompt_from_chunks(query, relevant_chunks')
                 ELSE RawPrompt(query)
    /\ pc' = "generate_response"
    /\ UNCHANGED << store, store0, query, use_rag, threshold, query_response, gate, papers,
                    ingested, relevant_papers, processed_papers, result >>
    /\ UNCHANGED unit_vars

\* process_user_query: return self.llm_service.generate_response(prompt)
GenerateResponse ==
    /\ pc = "generate_response"
    /\ \/ \E r \in Responses :
             /\ result' = Return(r)
             /\ log' = Append(log, [op |-> "generate_response", ok |-> TRUE])
             /\ pc' = "returned"
       \/ /\ result' = Raise("Exception")
          /\ log' = Append(log, [op |-> "generate_response", ok |-> FALSE])
          /\ pc' = "raised"
    /\ UNCHANGED << store, store0, query, use_rag, threshold, query_response, gate, papers,
                    ingested, relevant_papers, processed_papers, relevant_chunks, prompt >>
    /\ UNCHANGED unit_vars

\* the call is over; the next one starts from the index as this one left it
NextCall ==
    /\ pc \in {"returned", "raised"}
    /\ pc' = "idle"
    /\ query' = <<>>
    /\ use_rag' = FALSE
    /\ query_response' = [matches |-> <<>>]
    /\ gate' = NoValue
    /\ papers' = <<>>
    /\ ingested' = <<>>
    /\ relevant_papers' = <<>>
    /\ processed_papers' = <<>>
    /\ relevant_chunks' = <<>>
    /\ prompt' = NoValue
    /\ result' = NoValue
    /\ log' = <<>>
    /\ store0' = store
    /\ UNCHANGED << store, threshold >>
    /\ UNCHANGED unit_vars

Next ==
    \/ Submit
    \/ SearchVectorDb
    \/ AssessSearchQuality
    \/ QueryResponseToPapers
    \/ SearchPapers
    \/ ProcessPapers
    \/ AddPapersToVectorDb
    \/ EnsurePapersHaveContent
    \/ FindRelevantChunks
    \/ GenerateResponse
    \/ NextCall

Spec == Init /\ [][Next]_vars

-----------------------------------------------------------------------------
(* Properties of the pipeline (Spec) *)

Matches == query_response.matches
MatchIds == [i \in 1..Len(Matches) |-> Matches[i].id]

\* the gate has answered for the running call: sufficient / insufficient
Sufficient == gate # NoValue /\ ~Raised(gate) /\ gate.value.is_good_enough
Insufficient == gate # NoValue /\ ~Raised(gate) /\ ~gate.value.is_good_enough

\* rag_query has returned to process_user_query
RagQueryReturned ==
    /\ use_rag
    /\ gate # NoValue
    /\ \/ pc \in {"_ensure_papers_have_content", "find_relevant_chunks",
                  "generate_response", "returned"}
       \/ pc = "raised" /\ result = Raise("Exception")

Downloads(by) == SelectSeq(log, LAMBDA e : e.op = "download" /\ e.by = by)
LogHas(op) == \E i \in 1..Len(log) : log[i].op = op
UpsertedIds == UNION { Range(log[i].ids) : i \in { j \in 1..Len(log) : log[j].op = "upsert" } }
ChunkedIds == SelectSeq(log, LAMBDA e : e.op = "chunk_paper")

C4_PersistBeforeChunking ==
    Insufficient =>
        /\ \A i \in 1..Len(log) :
              log[i].op = "chunk_paper" =>
                 \E j \in 1..(i - 1) : log[j].op = "upsert" /\ log[i].id \in Range(log[j].ids)
        /\ (RagQueryReturned /\ relevant_papers # <<>>) =>
              /\ \E j \in 1..Len(log) : log[j].op = "upsert" /\ log[j].ids = Ids(relevant_papers)
              /\ \A i \in 1..Len(relevant_papers) :
                    /\ relevant_papers[i].id \in DOMAIN store
                    /\ store[relevant_papers[i].id] = FullMetadata(relevant_papers[i].id)
        /\ \A k \in 1..Len(relevant_chunks) : relevant_chunks[k].paper_id \in UpsertedIds

C4_Witness ==
    /\ Insufficient
    /\ pc = "generate_response"
    /\ relevant_chunks # <<>>
    /\ store # store0

\* C5 as claimed: on the sufficient path no returned hit goes through the
\* chunker, the scorer or the selector.
C5_CachedNeverChunked ==
    Sufficient => (~LogHas("chunk_paper") /\ relevant_chunks = <<>>)

\* C5 as amended: rag_query itself chunks nothing on either path and returns the
\* hits with empty text; the orchestrator then downloads every returned hit again
\* and passes exactly those whose text it obtains through find_relevant_chunks
\* (chunker, scorer, selector), whatever the gate said.
C5_OrchestratorChunksCachedHits ==
    /\ pc \in {"search_vector_db", "assess_search_quality", "query_response_to_papers",
               "search_papers", "process_papers", "add_papers_to_vector_db",
               "_ensure_papers_have_content", "find_relevant_chunks"}
          => (~LogHas("chunk_paper") /\ relevant_chunks = <<>>)
    /\ (Sufficient /\ RagQueryReturned) =>
          /\ \A i \in 1..Len(relevant_papers) : relevant_papers[i].text_content = <<>>
          /\ pc \notin {"_ensure_papers_have_content", "find_relevant_chunks"} =>
                LET ev == Downloads("_ensure_papers_have_content")
                    got == SelectSeq(ev, LAMBDA e : e.outcome.pdf_path # "None" /\ e.outcome.text # <<>>)
                IN  /\ [i \in 1..Len(ev) |-> ev[i].id] = MatchIds
                    /\ [i \in 1..Len(ChunkedIds) |-> ChunkedIds[i].id]
                          = [i \in 1..Len(got) |-> got[i].id]
                    /\ \A k \in 1..Len(relevant_chunks) :
                          relevant_chunks[k].paper_id \in { got[i].id : i \in 1..Len(got) }

C5_Witness ==
    /\ Sufficient
    /\ pc = "generate_response"
    /\ relevant_chunks # <<>>
    /\ relevant_chunks[1].paper_id \in Range(MatchIds)
    /\ prompt.template = "RAG_PROMPT_TEMPLATE"

\* the downloads process_papers made for the batch, one per arXiv paper, in order
BatchDownloads == Downloads("process_papers")
BatchDone == pc \notin {"search_papers", "process_papers"}

\* C6: a paper of the fetch batch whose download fails is skipped and the batch
\* goes on: the papers kept are exactly those whose download gave a path, in the
\* order arXiv returned them, each unchanged but for its path and extracted text.
C6_FailedDownloadsSkipped ==
    (Insufficient /\ BatchDone) =>
        LET ev == BatchDownloads
            ok == SelectSeqIdx(Len(papers), [i \in 1..Len(papers) |-> ev[i].outcome.pdf_path # "None"])
        IN  /\ Len(ev) = Len(papers)
            /\ \A i \in 1..Len(papers) : ev[i].id = papers[i].id
            /\ Len(ingested) = Len(ok)
            /\ \A k \in 1..Len(ok) :
                  ingested[k] = [papers[ok[k]] EXCEPT !.pdf_path = PdfPath(papers[ok[k]].id),
                                                      !.text_content = ev[ok[k]].outcome.text]

C6_Witness ==
    /\ Insufficient
    /\ pc = "add_papers_to_vector_db"
    /\ Len(papers) = 2
    /\ BatchDownloads[1].outcome.pdf_path = "None"
    /\ BatchDownloads[2].outcome.pdf_path # "None"
    /\ Ids(ingested) = <<papers[2].id>>

\* every paper of a non-empty fetch batch failed to download
AllDownloadsFailed ==
    /\ Insufficient
    /\ BatchDone
    /\ papers # <<>>
    /\ \A i \in 1..Len(BatchDownloads) : BatchDownloads[i].outcome.pdf_path = "None"

\* C7 as claimed: when every paper of the batch fails, nothing is upserted and
\* rag_query returns the original matches.
C7_ReturnsOriginalMatches ==
    (AllDownloadsFailed /\ RagQueryReturned) =>
        (~LogHas("upsert") /\ Ids(relevant_papers) = MatchIds)

\* C7 as amended: when every paper of the batch fails, nothing is upserted, the
\* index is as it was, and rag_query returns the empty list (the matches of the
\* search are dropped), so the orchestrator sends the bare query to the model.
C7_AllFailedYieldsEmptyList ==
    AllDownloadsFailed =>
        /\ RagQueryReturned
        /\ relevant_papers = <<>>
        /\ ~LogHas("upsert") /\ ~LogHas("upsert_failed")
        /\ store = store0
        /\ processed_papers = <<>> /\ relevant_chunks = <<>>
        /\ prompt = RawPrompt(query)

C7_Witness ==
    /\ AllDownloadsFailed
    /\ Len(papers) = 2
    /\ Matches # <<>>
    /\ pc = "returned"
    /\ relevant_papers = <<>>

\* C8 as claimed: when the vector store or the fetch source cannot be reached
\* for the search, the failure is surfaced and the pipeline aborts.
C8_SearchFailureAborts ==
    \A i \in 1..Len(log) :
        (log[i].op \in {"search_vector_db", "search_papers"} /\ ~log[i].ok) =>
            (i = Len(log) /\ pc = "raised")

\* C8 as amended: a failed call of the vector store (search or upsert) is raised
\* to the caller and ends the call with nothing returned; a failure of the arXiv
\* search is swallowed: search_papers gives the empty list, rag_query returns the
\* empty list and the bare query is answered.
C8_VectorStoreFailureAborts ==
    /\ \A i \in 1..Len(log) :
          ((log[i].op = "search_vector_db" /\ ~log[i].ok) \/ log[i].op = "upsert_failed") =>
             /\ i = Len(log)
             /\ pc = "raised"
             /\ result = Raise("VectorStoreError")
             /\ relevant_papers = <<>> /\ relevant_chunks = <<>> /\ prompt = NoValue
             /\ store = store0
    /\ \A i \in 1..Len(log) :
          (log[i].op = "search_papers" /\ ~log[i].ok) =>
             /\ papers = <<>> /\ ingested = <<>> /\ relevant_papers = <<>>
             /\ pc \in {"process_papers", "generate_response", "returned", "raised"}
             /\ pc \in {"generate_response", "returned", "raised"} => prompt = RawPrompt(query)
             /\ pc = "raised" => result = Raise("Exception")

C8_Witness ==
    /\ pc = "returned"
    /\ \E i \in 1..Len(log) : log[i].op = "search_papers" /\ ~log[i].ok
    /\ result = Return("answer")

\* the call chunked papers and no chunk was selected
NoChunksFallback ==
    /\ use_rag
    /\ pc \in {"generate_response", "returned", "raised"}
    /\ LogHas("chunk_paper")
    /\ relevant_chunks = <<>>

\* what process_user_query returns when the prompt was built from chunks
AugmentedReturns == { Return(r) : r \in Responses }

\* C9 as claimed: when no chunk is selected the bare query is answered, no error
\* is raised for it, and the caller can tell the answer from an augmented one.
C9_FallbackDistinguishable ==
    NoChunksFallback =>
        /\ prompt = RawPrompt(query)
        /\ pc = "returned" => result \notin AugmentedReturns

\* C9 as amended: when no chunk is selected the prompt is the bare query, as
\* when retrieval is off, and nothing is raised for it (only a failure of the
\* model call raises); what is returned is the model's text alone, a value an
\* augmented call returns too.
C9_FallbackToRawQuery ==
    /\ NoChunksFallback =>
          /\ prompt = RawPrompt(query)
          /\ pc = "raised" => (result = Raise("Exception") /\ log[Len(log)] = [op |-> "generate_response", ok |-> FALSE])
          /\ pc = "returned" => result \in AugmentedReturns
    /\ (~use_rag /\ pc \in {"generate_response", "returned", "raised"}) => prompt = RawPrompt(query)
    /\ (pc = "returned" /\ relevant_chunks # <<>>) =>
          (prompt.template = "RAG_PROMPT_TEMPLATE" /\ result \in AugmentedReturns)

C9_Witness ==
    /\ NoChunksFallback
    /\ pc = "returned"
    /\ processed_papers # <<>>
    /\ result = Return("answer")

\* C10 as claimed: a hit whose metadata lacks a field is dropped from the result
\* and the other hits are returned.
C10_MalformedHitDropped ==
    (Sufficient /\ pc # "query_response_to_papers") =>
        LET good == SelectSeq(Matches, LAMBDA m : ~MissingField(m))
        IN  /\ RagQueryReturned
            /\ Ids(relevant_papers) = [i \in 1..Len(good) |-> good[i].id]

-----------------------------------------------------------------------------
(* The gate alone: assess_search_quality applied to any bounded result set   *)
(* and any threshold argument.                                               *)

MaxMatches == 3
GateScores == { 0, 30, 50, 75, 80, 90, 100 }
GateThresholds == { ThresholdNone, ThresholdArg(50), ThresholdArg(90) }

GateResults ==
    { [matches |-> [i \in 1..Len(sc) |->
                       [id |-> "1", score |-> sc[i], metadata |-> FullMetadata("1")]]] :
        sc \in UNION { [1..n -> GateScores] : n \in 0..MaxMatches } }

GateInit ==
    /\ store = <<>>
    /\ store0 = <<>>
    /\ pc = "assess_search_quality"
    /\ query = <<"a","b">>
    /\ use_rag = TRUE
    /\ threshold \in GateThresholds
    /\ query_response \in GateResults
    /\ gate = NoValue
    /\ papers = <<>>
    /\ ingested = <<>>
    /\ relevant_papers = <<>>
    /\ processed_papers = <<>>
    /\ relevant_chunks = <<>>
    /\ prompt = NoValue
    /\ result = NoValue
    /\ log = <<>>
    /\ NoUnitCall

GateAssess ==
    /\ pc = "assess_search_quality"
    /\ gate' = assess_search_quality(query_response, threshold)
    /\ pc' = "assessed"
    /\ UNCHANGED << store, store0, query, use_rag, threshold, query_response, papers, ingested,
                    relevant_papers, processed_papers, relevant_chunks, prompt, result, log >>
    /\ UNCHANGED unit_vars

GateNext == GateAssess

GateSpec == GateInit /\ [][GateNext]_vars

MatchScores == [i \in 1..Len(query_response.matches) |-> query_response.matches[i].score]

\* C1: for a non-empty result set the gate answers sufficient exactly when some
\* score reaches the max-score threshold, the scores sum to at least the minimum
\* average times their number, and there are at least the minimum number of matches.
C1_GateIsConjunction ==
    (pc = "assessed" /\ query_response.matches # <<>>) =>
        /\ ~Raised(gate)
        /\ gate.value.is_good_enough =
              (/\ \E i \in 1..Len(MatchScores) : MatchScores[i] >= ThresholdOf(threshold)
               /\ SeqSum(MatchScores) >= MIN_AVERAGE_SCORE * Len(MatchScores)
               /\ Len(MatchScores) >= MIN_RESULTS_COUNT)

\* max 0.9, average 0.3, three matches, default thresholds: insufficient
C1_Witness ==
    /\ pc = "assessed"
    /\ MatchScores = <<90, 0, 0>>
    /\ threshold = ThresholdNone
    /\ gate.value.is_good_enough = FALSE
    /\ gate.value.quality_metrics.threshold_met

\* C2: with no matches the gate returns (False, "No results found") and
\* computes no average or maximum: no division by the empty count is attempted.
C2_NoResultsSentinel ==
    (pc = "assessed" /\ query_response.matches = <<>>) =>
        /\ ~Raised(gate)
        /\ gate.value.is_good_enough = FALSE
        /\ gate.value.quality_metrics = [kind |-> "str", text |-> "No results found"]

C2_Witness ==
    /\ pc = "assessed"
    /\ query_response.matches = <<>>
    /\ gate = Return(NoResultsFound)

-----------------------------------------------------------------------------
(* The fetch scenario end to end: one call of process_user_query against an   *)
(* empty index, so that the search has no match and the gate sends the call   *)
(* to arXiv; the papers are long enough for the chunk budget to matter.       *)

\* longer than two chunks of the chunker's maximum size
LongTextLen == 2 * ChunkerMaxSize + 101

UnitAb == <<"a","b"," ","c","d","."," ">>
UnitEf == <<"e","f"," ","g","h","."," ">>
UnitXAb == <<"x"," ","a","b"," ","y","."," ">>
ResultsPrefix == <<"R","e","s","u","l","t","s"," ">>

\* an extracted text without header, over 4000 characters: three fallback chunks,
\* of which only the first holds the word "ab"
TextLong ==
    SubSeq([i \in 1..LongTextLen |-> IF i <= 1400 THEN UnitAb[((i - 1) % 7) + 1]
                                     ELSE UnitEf[((i - 1) % 7) + 1]], 1, LongTextLen)

\* an extracted text that starts with a section name, over 4000 characters:
\* one section, split into three chunks
TextSection ==
    SubSeq([i \in 1..(LongTextLen + 6) |-> IF i <= 8 THEN ResultsPrefix[i]
                                           ELSE UnitXAb[((i - 9) % 8) + 1]], 1, LongTextLen + 6)

E2ETexts == { <<>>, TextLong, TextSection }

E2EInit ==
    /\ store = <<>>
    /\ store0 = store
    /\ pc = "idle"
    /\ query = <<>>
    /\ use_rag = FALSE
    /\ threshold = ThresholdNone
    /\ query_response = [matches |-> <<>>]
    /\ gate = NoValue
    /\ papers = <<>>
    /\ ingested = <<>>
    /\ relevant_papers = <<>>
    /\ processed_papers = <<>>
    /\ relevant_chunks = <<>>
    /\ prompt = NoValue
    /\ result = NoValue
    /\ log = <<>>
    /\ NoUnitCall

\* the steps of the call; with no match the gate never takes the sufficient branch
E2ENext ==
    \/ Submit
    \/ SearchVectorDb
    \/ AssessSearchQuality
    \/ SearchPapersUpTo(MaxResults)
    \/ ProcessPapersFrom(DownloadOutcomesOf(E2ETexts))
    \/ AddPapersToVectorDb
    \/ EnsurePapersHaveContentFrom(DownloadOutcomesOf(E2ETexts))
    \/ FindRelevantChunks
    \/ GenerateResponse

E2ESpec == E2EInit /\ [][E2ENext]_vars

\* sorted by relevance score, highest first
SortedByScoreDesc(cs) == \A i \in 1..(Len(cs) - 1) : cs[i].relevance_score >= cs[i + 1].relevance_score

\* the chunks find_relevant_chunks pools before it selects
PooledChunks == AllChunks(processed_papers)

\* find_relevant_chunks has returned
FindReturned == pc = "generate_response"

\* a call with RAG has run the chunker and selected its chunks
ChunksSelected == use_rag /\ pc \in {"generate_response", "returned", "raised"} /\ LogHas("chunk_paper")

\* C11: against an index without matches the gate answers insufficient with the
\* no-results sentinel and the call fetches from arXiv; only papers whose download
\* succeeded, and that have text, are chunked; the selected chunks are at most the
\* budget of 5, each carries the id, title and authors of such a paper (so they
\* span no more papers than were ingested), and they are sorted by score, highest first.
C11_FetchScenario ==
    /\ (gate # NoValue) => (gate = Return(NoResultsFound) /\ Matches = <<>>)
    /\ LogHas("chunk_paper") => LogHas("search_papers")
    /\ ChunksSelected =>
          /\ [i \in 1..Len(ChunkedIds) |-> ChunkedIds[i].id] = Ids(ChunkedPapers(processed_papers))
          /\ \A i \in 1..Len(ChunkedIds) :
                \E j \in 1..Len(BatchDownloads) :
                    /\ BatchDownloads[j].id = ChunkedIds[i].id
                    /\ BatchDownloads[j].outcome.pdf_path # "None"
          /\ Len(relevant_chunks) <= DefaultMaxChunks
          /\ \A k \in 1..Len(relevant_chunks) :
                \E i \in 1..Len(ingested) :
                    /\ relevant_chunks[k].paper_id = ingested[i].id
                    /\ relevant_chunks[k].paper_title = ingested[i].title
                    /\ relevant_chunks[k].paper_authors = ingested[i].authors
                    /\ \E j \in 1..Len(processed_papers) :
                          /\ processed_papers[j].id = ingested[i].id
                          /\ processed_papers[j].text_content # <<>>
          /\ Cardinality({ relevant_chunks[k].paper_id : k \in 1..Len(relevant_chunks) }) <= Len(ingested)
          /\ SortedByScoreDesc(relevant_chunks)

\* three papers fetched, one download failed, two papers chunked into six
\* chunks, five selected, of different scores
C11_Witness ==
    /\ ChunksSelected
    /\ pc = "generate_response"
    /\ Len(papers) = 3
    /\ Len(ingested) = 2
    /\ Len(processed_papers) = 2
    /\ Len(PooledChunks) = 6
    /\ Len(relevant_chunks) = 5
    /\ relevant_chunks[1].relevance_score > relevant_chunks[5].relevance_score
    /\ Cardinality({ relevant_chunks[k].paper_id : k \in 1..5 }) = 2

-----------------------------------------------------------------------------
(* The selector alone: _select_diverse_top_chunks applied to any bounded     *)
(* list of scored chunks, in any order, and any budget.                      *)

MaxScored == 4
MaxBudget == 3
SelectorScores == { 100, 500 }

\* no process_user_query call is in progress
NoPipelineCall ==
    /\ store = <<>>
    /\ store0 = <<>>
    /\ query = <<>>
    /\ use_rag = FALSE
    /\ threshold = ThresholdNone
    /\ query_response = [matches |-> <<>>]
    /\ gate = NoValue
    /\ papers = <<>>
    /\ ingested = <<>>
    /\ relevant_papers = <<>>
    /\ processed_papers = <<>>
    /\ relevant_chunks = <<>>
    /\ prompt = NoValue
    /\ result = NoValue
    /\ log = <<>>

pipeline_vars == << store, store0, query, use_rag, threshold, query_response, gate, papers,
                    ingested, relevant_papers, processed_papers, relevant_chunks, prompt,
                    result, log >>

\* the scored chunk dict of a paper's chunk
ScoredChunk(id, s) ==
    WithScore(ChunkData(ArxivPaper(id), TextChunk(<<"a","b">>, UnknownSection, 1, 0, 2)), s)

ScoredChunks == { ScoredChunk(id, s) : id \in PaperIds, s \in SelectorScores }

ScoredLists == { List(l) : l \in UNION { [1..n -> ScoredChunks] : n \in 0..MaxScored } }

SelectorInit ==
    /\ NoPipelineCall
    /\ pc = "_select_diverse_top_chunks"
    /\ ret_scored \in ScoredLists
    /\ arg_max_chunks \in 0..MaxBudget
    /\ ret_selected = NoValue
    /\ arg_text = NoValue
    /\ arg_sizes = NoValue
    /\ ret_chunks = NoValue
    /\ arg_chunks = NoValue
    /\ chunk_calls = <<>>
    /\ loop = NoValue

\* _select_diverse_top_chunks(scored_chunks, max_chunks) is called and returns
SelectDiverseTopChunks ==
    /\ pc = "_select_diverse_top_chunks"
    /\ ret_selected' = _select_diverse_top_chunks(ret_scored, arg_max_chunks)
    /\ pc' = "selected"
    /\ UNCHANGED pipeline_vars
    /\ UNCHANGED << arg_text, arg_sizes, ret_chunks, arg_chunks, ret_scored, arg_max_chunks,
                    chunk_calls, loop >>

SelectorNext == SelectDiverseTopChunks

SelectorSpec == SelectorInit /\ [][SelectorNext]_vars

SelectorReturned == pc = "selected"

\* the documents of a list of chunks
DocsOf(cs) == { cs[i].paper_id : i \in 1..Len(cs) }

\* how often a chunk occurs in a list
Occurrences(c, cs) == Cardinality({ i \in 1..Len(cs) : cs[i] = c })

\* no chunk of the same document in the list scores higher
TopOfItsDoc(c, cs) ==
    \A j \in 1..Len(cs) :
        cs[j].paper_id = c.paper_id => cs[j].relevance_score <= c.relevance_score

\* the chunk is the first chunk of its document in the list
FirstOfItsDoc(c, cs) ==
    \E j \in 1..Len(cs) :
        /\ cs[j] = c
        /\ \A h \in 1..(j - 1) : cs[h].paper_id # c.paper_id

\* at least max_chunks chunks that span at least max_chunks documents
DiverseCase ==
    /\ SelectorReturned
    /\ Len(ret_scored) >= arg_max_chunks
    /\ Cardinality(DocsOf(ret_scored)) >= arg_max_chunks

C13_BoundedSubBag ==
    SelectorReturned =>
        /\ Len(ret_selected) <= arg_max_chunks
        /\ \A i \in 1..Len(ret_selected) :
              /\ \E j \in 1..Len(ret_scored) : ret_scored[j] = ret_selected[i]
              /\ Occurrences(ret_selected[i], ret_selected)
                    <= Occurrences(ret_selected[i], ret_scored)

C13_Witness ==
    /\ SelectorReturned
    /\ arg_max_chunks = 2
    /\ Len(ret_scored) = 4
    /\ Len(ret_selected) = 2
    /\ Cardinality(DocsOf(ret_scored)) = 1
    /\ Occurrences(ret_selected[1], ret_scored) = 2
    /\ Occurrences(ret_selected[1], ret_selected) = 1

\* C14 as stated: the output is sorted by descending relevance score, for at most
\* k and for more than k chunks, for any order of the input list.
C14_AlwaysSorted ==
    SelectorReturned => SortedByScoreDesc(ret_selected)

\* C14 (amended): with more than k chunks the output is sorted by descending
\* relevance score for any order of the input; with at most k chunks the output
\* is the input list in its own order, sorted exactly when the input is.
C14_SortedBeyondBudget ==
    SelectorReturned =>
        /\ Len(ret_scored) > arg_max_chunks => SortedByScoreDesc(ret_selected)
        /\ Len(ret_scored) <= arg_max_chunks => ret_selected = ret_scored
        /\ SortedByScoreDesc(ret_scored) => SortedByScoreDesc(ret_selected)

C14_Witness ==
    /\ SelectorReturned
    /\ Len(ret_scored) > arg_max_chunks
    /\ ~SortedByScoreDesc(ret_scored)
    /\ Len(ret_selected) = 2
    /\ ret_selected[1].relevance_score > ret_selected[2].relevance_score
    /\ ret_selected[1] = ret_scored[2]
    /\ ret_selected[2] = ret_scored[1]

-----------------------------------------------------------------------------
(* The scorer alone: _score_chunks_by_relevance applied to any query and any *)
(* bounded list of chunk dicts.                                              *)

MaxToScore == 2

\* longer than the 3000 characters from which the length penalty applies
LongContent == SubSeq(TextLong, 1, 3001)

ChunkHeaders == { UnknownSection, <<"A","b">> }
ChunkContents == { <<"a","b">>, <<"x"," ","y",".">> }
ChunkLevels == { 1, 2, 4 }

\* the chunk dict find_relevant_chunks builds for a chunk of a paper
ChunkDict(id, header, level, content) ==
    ChunkData(ArxivPaper(id), TextChunk(content, header, level, 0, Len(content)))

ChunkDicts ==
    { ChunkDict("1", h, l, c) : h \in ChunkHeaders, l \in ChunkLevels, c \in ChunkContents }
    \cup { ChunkDict("2", UnknownSection, 4, LongContent) }

ChunkLists == { List(l) : l \in UNION { [1..n -> ChunkDicts] : n \in 0..MaxToScore } }

ScorerInit ==
    /\ store = <<>>
    /\ store0 = <<>>
    /\ pc = "_score_chunks_by_relevance"
    /\ query \in Queries
    /\ use_rag = FALSE
    /\ threshold = ThresholdNone
    /\ query_response = [matches |-> <<>>]
    /\ gate = NoValue
    /\ papers = <<>>
    /\ ingested = <<>>
    /\ relevant_papers = <<>>
    /\ processed_papers = <<>>
    /\ relevant_chunks = <<>>
    /\ prompt = NoValue
    /\ result = NoValue
    /\ log = <<>>
    /\ arg_chunks \in ChunkLists
    /\ ret_scored = NoValue
    /\ arg_text = NoValue
    /\ arg_sizes = NoValue
    /\ ret_chunks = NoValue
    /\ arg_max_chunks = NoValue
    /\ ret_selected = NoValue
    /\ chunk_calls = <<>>
    /\ loop = NoValue

\* _score_chunks_by_relevance(query, chunks) is called and returns; the loop
\* annotates a copy of each chunk and assigns to nothing else
ScoreChunksByRelevance ==
    /\ pc = "_score_chunks_by_relevance"
    /\ ret_scored' = _score_chunks_by_relevance(query, arg_chunks)
    /\ pc' = "scored"
    /\ UNCHANGED pipeline_vars
    /\ UNCHANGED << arg_text, arg_sizes, ret_chunks, arg_chunks, arg_max_chunks, ret_selected,
                    chunk_calls, loop >>

ScorerNext == ScoreChunksByRelevance

ScorerSpec == ScorerInit /\ [][ScorerNext]_vars

ScorerReturned == pc = "scored"

\* the dict is the chunk with only a relevance_score added
AnnotatedCopyOf(scored, chunk) ==
    /\ DOMAIN scored = DOMAIN chunk \cup {"relevance_score"}
    /\ \A f \in DOMAIN chunk : scored[f] = chunk[f]

\* C15: for every query and every chunk the relevance score the scorer returns
\* is at least 0.
C15_ScoreNonNegative ==
    ScorerReturned =>
        \A i \in 1..Len(ret_scored) : ret_scored[i].relevance_score >= 0

C15_Witness ==
    /\ ScorerReturned
    /\ Len(ret_scored) = 2
    /\ ret_scored[1].section_level = 4
    /\ ret_scored[1].relevance_score = 0
    /\ ret_scored[2].chunk_size > 3000
    /\ ret_scored[2].relevance_score > 0

\* C16: the scorer's output has the length of its input, its i-th element is the
\* i-th input chunk with only a relevance_score added, and the call leaves the
\* input list, its chunk dicts and everything else as they were.
C16_PureOrderPreserving ==
    [][(pc = "_score_chunks_by_relevance" /\ pc' = "scored") =>
          /\ Len(ret_scored') = Len(arg_chunks)
          /\ \A i \in 1..Len(arg_chunks) : AnnotatedCopyOf(ret_scored'[i], arg_chunks[i])
          /\ arg_chunks' = arg_chunks
          /\ query' = query
          /\ UNCHANGED pipeline_vars]_vars

C16_Witness ==
    /\ ScorerReturned
    /\ Len(arg_chunks) = 2
    /\ Len(ret_scored) = 2
    /\ AnnotatedCopyOf(ret_scored[1], arg_chunks[1])
    /\ AnnotatedCopyOf(ret_scored[2], arg_chunks[2])
    /\ arg_chunks[1] # arg_chunks[2]
    /\ ret_scored[1].relevance_score < ret_scored[2].relevance_score

-----------------------------------------------------------------------------
(* The chunker alone: SectionChunker(max_chunk_size, min_chunk_size)         *)
(* .chunk_paper applied to any bounded text.                                 *)

MaxTextLen == 5
TextAlphabet == { "A", "b", " ", ".", "\n" }

\* a section longer than the small maximum sizes, followed by a second section
TextTwoSections == <<"A","b","b","\n","A","A">>

\* a header line whose text also occurs inside the line before it
TextHeaderInsideLine == <<"b","A","b","\n","A","b">>

ChunkerTexts ==
    { List(t) : t \in UNION { [1..n -> TextAlphabet] : n \in 0..MaxTextLen } }
    \cup { TextTwoSections, TextHeaderInsideLine }
ChunkerSizes == { [max_chunk_size |-> mx, min_chunk_size |-> mn] : mx \in {2, 3}, mn \in {0, 2, 3} }

\* the sizes find_relevant_chunks configures, and the same without a minimum
PipelineSizes == { [max_chunk_size |-> ChunkerMaxSize, min_chunk_size |-> mn] : mn \in {0, ChunkerMinSize} }

\* the calls: short texts with small sizes, long texts with the pipeline's sizes
ChunkerCalls ==
    { [text |-> t, sizes |-> z] : t \in ChunkerTexts, z \in ChunkerSizes }
    \cup { [text |-> t, sizes |-> z] : t \in { TextLong, TextSection }, z \in PipelineSizes }

ChunkerInit ==
    /\ NoPipelineCall
    /\ pc = "chunk_paper"
    /\ \E call \in ChunkerCalls :
          /\ arg_text = call.text
          /\ arg_sizes = call.sizes
    /\ ret_chunks = NoValue
    /\ arg_chunks = NoValue
    /\ ret_scored = NoValue
    /\ arg_max_chunks = NoValue
    /\ ret_selected = NoValue
    /\ chunk_calls = <<>>
    /\ loop = NoValue

\* SectionChunker(max_chunk_size, min_chunk_size).chunk_paper(text) is called and returns
ChunkPaper ==
    /\ pc = "chunk_paper"
    /\ ret_chunks' = chunk_paper(arg_text, arg_sizes.max_chunk_size, arg_sizes.min_chunk_size)
    /\ pc' = "chunked"
    /\ UNCHANGED pipeline_vars
    /\ UNCHANGED << arg_text, arg_sizes, arg_chunks, ret_scored, arg_max_chunks, ret_selected,
                    chunk_calls, loop >>

ChunkerNext == ChunkPaper

ChunkerSpec == ChunkerInit /\ [][ChunkerNext]_vars

ChunkerReturned == pc = "chunked"

\* final_chunks of chunk_paper before _filter_tiny_chunks (a minimum size of 0
\* filters nothing), or the fallback's chunks
unfiltered_chunks(text, max_chunk_size) == chunk_paper(text, max_chunk_size, 0)

\* the chunks of the call in progress before the min-size filter
Unfiltered == unfiltered_chunks(arg_text, arg_sizes.max_chunk_size)

\* no header is detected in the text of the call
NoHeaderDetected == _find_section_positions(arg_text) = <<>>

\* C17: for a non-empty text the chunks before min-size filtering are in text
\* order and do not overlap: chunks[i].end_index <= chunks[i+1].start_index for
\* every adjacent pair.
C17_OrderedNonOverlapping ==
    (ChunkerReturned /\ arg_text # <<>>) =>
        \A i \in 1..(Len(Unfiltered) - 1) :
            Unfiltered[i].end_index <= Unfiltered[i + 1].start_index

C17_Witness ==
    /\ ChunkerReturned
    /\ ~NoHeaderDetected
    /\ arg_sizes.min_chunk_size = 0
    /\ ret_chunks = Unfiltered
    /\ Len(ret_chunks) = 3
    /\ ret_chunks[1].section_header = ret_chunks[2].section_header
    /\ ret_chunks[1].end_index = ret_chunks[2].start_index
    /\ ret_chunks[2].end_index < ret_chunks[3].start_index
    /\ ret_chunks[3].section_header # ret_chunks[2].section_header

\* the section boundaries of the text of the call
SectionPositions == _find_section_positions(arg_text)

\* where the section that starts at SectionPositions[k] ends
SectionEnd(k) ==
    IF k + 1 <= Len(SectionPositions) THEN SectionPositions[k + 1].start_pos ELSE Len(arg_text)

\* text[start_index:end_index].strip() of the text of the call
StrippedSlice(a, b) == Strip(Slice(arg_text, a, b))

\* C18 as stated: every chunk's content equals text[start_index:end_index]
\* exactly, fallback chunks and sub-chunks of oversize sections included.
C18_ContentIsExactSlice ==
    ChunkerReturned =>
        \A i \in 1..Len(ret_chunks) :
            ret_chunks[i].content
                = Slice(arg_text, ret_chunks[i].start_index, ret_chunks[i].end_index)

\* C18 (amended): the content of a fallback chunk and of a section chunk that was
\* not split is text[start_index:end_index].strip(); the content of a sub-chunk
\* of an oversize section is text[start_index + w:end_index + w].strip(), w being
\* the number of whitespace characters the section's slice begins with, and its
\* offsets lie within the section's slice.
C18_ContentIsStrippedSlice ==
    ChunkerReturned =>
        \A i \in 1..Len(ret_chunks) :
            LET c == ret_chunks[i]
            IN  /\ c.chunk_size = Len(c.content)
                /\ IF NoHeaderDetected
                   THEN c.content = StrippedSlice(c.start_index, c.end_index)
                   ELSE \E k \in 1..Len(SectionPositions) :
                            LET start_pos == SectionPositions[k].start_pos
                                end_pos == SectionEnd(k)
                                w == StripLo(Slice(arg_text, start_pos, end_pos))
                            IN  /\ c.section_header = SectionPositions[k].header
                                /\ start_pos <= c.start_index
                                /\ c.end_index <= end_pos
                                /\ IF c.start_index = start_pos /\ c.end_index = end_pos
                                   THEN c.content = StrippedSlice(start_pos, end_pos)
                                   ELSE c.content = StrippedSlice(c.start_index + w, c.end_index + w)

C18_Witness ==
    /\ ChunkerReturned
    /\ ~NoHeaderDetected
    /\ Len(ret_chunks) = 2
    /\ ret_chunks[1].section_header = ret_chunks[2].section_header
    /\ ret_chunks[1].content # StrippedSlice(ret_chunks[1].start_index, ret_chunks[1].end_index)
    /\ ret_chunks[1].content = StrippedSlice(ret_chunks[1].start_index + 1, ret_chunks[1].end_index + 1)
    /\ ret_chunks[2].content # Slice(arg_text, ret_chunks[2].start_index, ret_chunks[2].end_index)

\* some character of the text of the call is not whitespace
HasNonWhitespace == \E i \in 1..Len(arg_text) : arg_text[i] \notin Whitespace

\* every chunk is tagged "Unknown Section", level 1
AllUnknownSection(cs) ==
    \A i \in 1..Len(cs) : cs[i].section_header = UnknownSection /\ cs[i].section_level = 1

\* C19 as stated: a non-empty text in which no header is detected yields at least
\* one chunk, and every chunk is tagged "Unknown Section", level 1.
C19_FallbackNeverEmpty ==
    (ChunkerReturned /\ arg_text # <<>> /\ NoHeaderDetected) =>
        /\ Len(ret_chunks) >= 1
        /\ AllUnknownSection(ret_chunks)

\* C19 (amended): a text with a non-whitespace character in which no header is
\* detected yields at least one chunk, every chunk tagged "Unknown Section",
\* level 1; a text of whitespace only yields the empty list.
C19_FallbackOfVisibleText ==
    (ChunkerReturned /\ NoHeaderDetected) =>
        /\ HasNonWhitespace => Len(ret_chunks) >= 1
        /\ ~HasNonWhitespace => ret_chunks = <<>>
        /\ AllUnknownSection(ret_chunks)

C19_Witness ==
    /\ ChunkerReturned
    /\ NoHeaderDetected
    /\ HasNonWhitespace
    /\ arg_sizes.min_chunk_size = 2
    /\ Len(ret_chunks) = 2
    /\ AllUnknownSection(ret_chunks)
    /\ ret_chunks[1].chunk_size = 2
    /\ ret_chunks[2].chunk_size = 1

\* C20 as stated: every chunk chunk_paper returns has chunk_size >= min_chunk_size.
C20_AllAtLeastMinSize ==
    ChunkerReturned =>
        \A i \in 1..Len(ret_chunks) : ret_chunks[i].chunk_size >= arg_sizes.min_chunk_size

\* C20 (amended): when a header is detected, chunk_paper returns the chunks of at
\* least min_chunk_size characters and drops the others; when none is detected
\* it returns the fallback's chunks without the min-size filter.
C20_FilteredUnlessFallback ==
    ChunkerReturned =>
        IF NoHeaderDetected
        THEN ret_chunks = Unfiltered
        ELSE /\ \A i \in 1..Len(ret_chunks) :
                    ret_chunks[i].chunk_size >= arg_sizes.min_chunk_size
             /\ ret_chunks = SelectSeq(Unfiltered,
                                LAMBDA c : c.chunk_size >= arg_sizes.min_chunk_size)

C20_Witness ==
    /\ ChunkerReturned
    /\ ~NoHeaderDetected
    /\ arg_sizes.min_chunk_size = 2
    /\ Len(Unfiltered) = 3
    /\ Len(ret_chunks) = 2
    /\ Unfiltered[2].chunk_size = 1
    /\ ret_chunks = << Unfiltered[1], Unfiltered[3] >>

-----------------------------------------------------------------------------
(* The chunker alone, continued *)

RECURSIVE IsSubSeq(_, _)
\* a is b with some elements removed: same elements, same order, same fields
IsSubSeq(a, b) ==
    IF a = <<>> THEN TRUE
    ELSE IF b = <<>> THEN FALSE
    ELSE IF Head(a) = Head(b) THEN IsSubSeq(Tail(a), Tail(b))
    ELSE IsSubSeq(a, Tail(b))

\* the configurations with the maximum size of the call and a minimum size not
\* above that of the call
SmallerMinSizes ==
    { z \in ChunkerSizes \cup PipelineSizes :
        /\ z.max_chunk_size = arg_sizes.max_chunk_size
        /\ z.min_chunk_size <= arg_sizes.min_chunk_size }

\* what chunk_paper returns for the text of the call under another configuration
ChunksUnder(z) == chunk_paper(arg_text, z.max_chunk_size, z.min_chunk_size)

\* C21: for the same text and max_chunk_size, the chunks returned with a larger
\* min_chunk_size are a subsequence of those returned with a smaller one: no
\* chunk is added, reordered or changed.
C21_FilterMonotone ==
    ChunkerReturned =>
        \A z \in SmallerMinSizes :
            /\ Len(ret_chunks) <= Len(ChunksUnder(z))
            /\ IsSubSeq(ret_chunks, ChunksUnder(z))

C21_Witness ==
    /\ ChunkerReturned
    /\ ~NoHeaderDetected
    /\ arg_sizes.min_chunk_size = 3
    /\ Len(ret_chunks) >= 1
    /\ \E z \in SmallerMinSizes :
          /\ z.min_chunk_size = 2
          /\ Len(ChunksUnder(z)) > Len(ret_chunks)
          /\ ChunksUnder(z)[Len(ChunksUnder(z))].chunk_size = 2
          /\ IsSubSeq(ret_chunks, ChunksUnder(z))

\* C22: for max_chunk_size >= 1 every chunk chunk_paper returns has at most
\* max_chunk_size characters, and a sub-chunk of an oversize section carries the
\* header and the level of the section it lies in.
C22_AtMostMaxSize ==
    ChunkerReturned =>
        \A i \in 1..Len(ret_chunks) :
            /\ ret_chunks[i].chunk_size <= arg_sizes.max_chunk_size
            /\ ~NoHeaderDetected =>
                  \E k \in 1..Len(SectionPositions) :
                      /\ SectionPositions[k].start_pos <= ret_chunks[i].start_index
                      /\ ret_chunks[i].end_index <= SectionEnd(k)
                      /\ ret_chunks[i].section_header = SectionPositions[k].header
                      /\ ret_chunks[i].section_level = SectionPositions[k].level

C22_Witness ==
    /\ ChunkerReturned
    /\ Len(SectionPositions) = 1
    /\ arg_sizes.max_chunk_size = 3
    /\ Len(StrippedSlice(SectionPositions[1].start_pos, SectionEnd(1))) = 5
    /\ Len(ret_chunks) = 2
    /\ ret_chunks[1].chunk_size = 3
    /\ ret_chunks[2].chunk_size = 2
    /\ ret_chunks[1].section_header = SectionPositions[1].header
    /\ ret_chunks[2].section_header = SectionPositions[1].header
    /\ ret_chunks[2].section_level = 2

-----------------------------------------------------------------------------
(* The scorer alone, continued *)

\* the words of the query: lower-cased, whitespace-split, as a set
QueryWords(q) == SplitWords(StrLower(q))

\* how many query words are among the whitespace-split tokens of a string
WordsPresent(q, s) == Cardinality(QueryWords(q) \cap SplitWords(s))

\* 0.4*H + 0.01*C + 0.1*max(0, 3 - section_level), times 0.8 above 3000
\* characters, clamped to >= 0, in thousandths, for a header and a content
ScoreOf(q, header, content, level, size) ==
    LET sum == 400 * WordsPresent(q, header) + 10 * WordsPresent(q, content)
                 + 100 * (IF 3 - level > 0 THEN 3 - level ELSE 0)
        penalised == IF size > 3000 THEN (sum * 8) \div 10 ELSE sum
    IN  IF penalised > 0 THEN penalised ELSE 0

\* C25 as stated: H and C count the lower-cased query words among the tokens of
\* the header and among the words of the content, as they are written.
C25_ScoreOfWrittenText ==
    ScorerReturned =>
        \A i \in 1..Len(ret_scored) :
            ret_scored[i].relevance_score
                = ScoreOf(query, arg_chunks[i].section_header, arg_chunks[i].content,
                          arg_chunks[i].section_level, arg_chunks[i].chunk_size)

\* C25 (amended): the score is 0.4*H + 0.01*C + 0.1*max(0, 3 - section_level),
\* times 0.8 when chunk_size > 3000, clamped to >= 0, where H and C count the
\* lower-cased query words among the tokens of the lower-cased header and among
\* the words of the lower-cased content.
C25_ScoreOfLowerCasedText ==
    ScorerReturned =>
        \A i \in 1..Len(ret_scored) :
            ret_scored[i].relevance_score
                = ScoreOf(query, StrLower(arg_chunks[i].section_header),
                          StrLower(arg_chunks[i].content),
                          arg_chunks[i].section_level, arg_chunks[i].chunk_size)

C25_Witness ==
    /\ ScorerReturned
    /\ Len(ret_scored) = 2
    /\ ret_scored[1].chunk_size > 3000
    /\ ret_scored[1].relevance_score = 8
    /\ ret_scored[2].section_header = <<"A","b">>
    /\ ret_scored[2].section_level = 2
    /\ ret_scored[2].relevance_score = 510

-----------------------------------------------------------------------------
(* The fetch path, continued *)

\* C30: within find_relevant_chunks every chunk handed to the scorer has at most
\* 2000 characters, the chunker's maximum, so no score of a pipeline run carries
\* the length penalty for chunk_size > 3000.
C30_PenaltyNeverApplied ==
    (ChunksSelected /\ FindReturned) =>
        /\ LET pooled == PooledChunks
           IN  \A i \in 1..Len(pooled) :
                  /\ pooled[i].chunk_size <= ChunkerMaxSize
                  /\ pooled[i].chunk_size <= 3000
        /\ \A i \in 1..Len(relevant_chunks) :
              relevant_chunks[i].relevance_score
                  = ScoreOf(query, StrLower(relevant_chunks[i].section_header),
                            StrLower(relevant_chunks[i].content),
                            relevant_chunks[i].section_level, 0)

C30_Witness ==
    /\ ChunksSelected
    /\ FindReturned
    /\ Len(processed_papers) = 1
    /\ Len(processed_papers[1].text_content) > 3000
    /\ Len(PooledChunks) = 3
    /\ PooledChunks[1].chunk_size > 1900
    /\ PooledChunks[1].section_header # UnknownSection
    /\ Len(relevant_chunks) = 3
    /\ relevant_chunks[1].relevance_score > 0

-----------------------------------------------------------------------------
(* The chunker alone: where the header lines are *)

\* the line of the text that starts at offset a
LineAt(a) == Slice(arg_text, a, LineEnd(arg_text, a))

\* the offsets at which the lines detected as headers start in the text
HeaderLineStarts ==
    { a \in LineStarts(arg_text) :
        Strip(LineAt(a)) # <<>> /\ HeaderLevel(Strip(LineAt(a))) > 0 }

\* the same header line text occurs more than once
RepeatedHeaderLine ==
    \E a, b \in HeaderLineStarts : a # b /\ LineAt(a) = LineAt(b)

\* the positions _find_section_positions gives the headers
SectionStarts == { SectionPositions[k].start_pos : k \in 1..Len(SectionPositions) }

\* C26: every chunk chunk_paper returns, for any min_chunk_size >= 0 and any
\* max_chunk_size >= 1, spans a non-empty range: end_index > start_index.
C26_NonEmptyRange ==
    ChunkerReturned =>
        \A i \in 1..Len(ret_chunks) : ret_chunks[i].end_index > ret_chunks[i].start_index

\* C27: when the same header line text occurs more than once, each occurrence is
\* a header located at its own position in the text, and the occurrences yield
\* chunks that start at their own occurrence.
C27_RepeatedHeaderAtOwnPosition ==
    (ChunkerReturned /\ RepeatedHeaderLine) =>
        /\ SectionStarts = HeaderLineStarts
        /\ \A a \in HeaderLineStarts :
              \E i \in 1..Len(Unfiltered) : Unfiltered[i].start_index = a

\* C28: when a header is detected, no returned chunk starts before the first
\* detected header line: the text preceding it is assigned to no chunk.
C28_NothingBeforeFirstHeader ==
    (ChunkerReturned /\ ~NoHeaderDetected) =>
        \A a \in HeaderLineStarts :
            (\A b \in HeaderLineStarts : a <= b) =>
                \A i \in 1..Len(ret_chunks) : ret_chunks[i].start_index >= a

-----------------------------------------------------------------------------
(* Direct calls of chunk_paper, _score_chunks_by_relevance,                  *)
(* _select_diverse_top_chunks and find_relevant_chunks on short inputs, the  *)
(* empty ones included.                                                      *)

MaxUnitInput == 2

\* a paper as process_papers leaves it: downloaded, with the extracted text
PaperWithText(id, t) ==
    [ArxivPaper(id) EXCEPT !.pdf_path = PdfPath(id), !.text_content = t]

DocumentLists ==
    { List(l) : l \in UNION { [1..n -> { PaperWithText(id, t) : id \in {"1", "2"},
                                                               t \in ExtractedTexts }] :
                               n \in 0..MaxUnitInput } }

\* find_relevant_chunks(query, papers) is about to run on its own
FindInit ==
    /\ store = <<>>
    /\ store0 = <<>>
    /\ pc = "find_relevant_chunks"
    /\ query \in Queries
    /\ use_rag = TRUE
    /\ threshold = ThresholdNone
    /\ query_response = [matches |-> <<>>]
    /\ gate = NoValue
    /\ papers = <<>>
    /\ ingested = <<>>
    /\ relevant_papers = <<>>
    /\ processed_papers \in DocumentLists
    /\ relevant_chunks = <<>>
    /\ prompt = NoValue
    /\ result = NoValue
    /\ log = <<>>
    /\ NoUnitCall

UnitsInit ==
    \/ ChunkerInit /\ Len(arg_text) <= MaxUnitInput
    \/ ScorerInit /\ Len(arg_chunks) <= MaxUnitInput
    \/ SelectorInit /\ Len(ret_scored) <= MaxUnitInput
    \/ FindInit

UnitsNext ==
    \/ ChunkPaper
    \/ ScoreChunksByRelevance
    \/ SelectDiverseTopChunks
    \/ FindRelevantChunks

UnitsSpec == UnitsInit /\ [][UnitsNext]_vars

\* no document of the list has text
NoDocumentHasText ==
    \A i \in 1..Len(processed_papers) : processed_papers[i].text_content = <<>>

\* C24: an empty text yields no chunk, an empty chunk list an empty scored list,
\* an empty scored list an empty selection, and an empty document list or one of
\* documents without text an empty result of find_relevant_chunks; each call
\* returns.
C24_EmptyInEmptyOut ==
    /\ (pc = "chunk_paper" /\ arg_text = <<>>) => ENABLED ChunkPaper
    /\ (pc = "_score_chunks_by_relevance" /\ arg_chunks = <<>>) => ENABLED ScoreChunksByRelevance
    /\ (pc = "_select_diverse_top_chunks" /\ ret_scored = <<>>) => ENABLED SelectDiverseTopChunks
    /\ (pc = "find_relevant_chunks" /\ NoDocumentHasText) => ENABLED FindRelevantChunks
    /\ (ChunkerReturned /\ arg_text = <<>>) => ret_chunks = <<>>
    /\ (ScorerReturned /\ arg_chunks = <<>>) => ret_scored = <<>>
    /\ (SelectorReturned /\ ret_scored = <<>>) => ret_selected = <<>>
    /\ (FindReturned /\ NoDocumentHasText) => relevant_chunks = <<>>

C24_Witness ==
    /\ FindReturned
    /\ Len(processed_papers) = 2
    /\ processed_papers[1].id # processed_papers[2].id
    /\ NoDocumentHasText
    /\ relevant_chunks = <<>>
    /\ prompt = RawPrompt(query)

-----------------------------------------------------------------------------
(* One SectionChunker used for one document after another, as the loop of    *)
(* find_relevant_chunks uses it.  arg_sizes holds the attributes of the      *)
(* chunker, chunk_calls the calls made so far.                               *)

MaxCalls == 3

SessionTexts ==
    { <<>>, <<"A", "b">>, <<"b", "b", "b", " ", "b">>, TextTwoSections, TextHeaderInsideLine }

\* a chunk_paper call that keeps the length of its text as min_chunk_size
SectionChunkerAfterAdapting(sizes, text) == [sizes EXCEPT !.min_chunk_size = Len(text)]

\* the attributes of the chunker after chunk_paper(text): the method assigns
\* none of them
SectionChunkerAfter(sizes, text) == sizes

SessionInit ==
    /\ NoPipelineCall
    /\ pc = "chunk_paper"
    /\ arg_sizes \in ChunkerSizes
    /\ arg_text = <<>>
    /\ ret_chunks = <<>>
    /\ arg_chunks = <<>>
    /\ ret_scored = <<>>
    /\ arg_max_chunks = 0
    /\ ret_selected = <<>>
    /\ chunk_calls = <<>>
    /\ loop = NoValue

\* chunker.chunk_paper(text) on the chunker as it now is
ChunkPaperCall ==
    /\ pc \in {"chunk_paper", "chunked"}
    /\ Len(chunk_calls) < MaxCalls
    /\ \E text \in SessionTexts :
         LET chunks == chunk_paper(text, arg_sizes.max_chunk_size, arg_sizes.min_chunk_size)
         IN  /\ arg_text' = text
             /\ ret_chunks' = chunks
             /\ chunk_calls' = Append(chunk_calls, [text |-> text, sizes |-> arg_sizes,
                                                     chunks |-> chunks])
             /\ arg_sizes' = SectionChunkerAfter(arg_sizes, text)
    /\ pc' = "chunked"
    /\ UNCHANGED pipeline_vars
    /\ UNCHANGED << arg_chunks, ret_scored, arg_max_chunks, ret_selected, loop >>

SessionNext == ChunkPaperCall

SessionSpec == SessionInit /\ [][SessionNext]_vars

-----------------------------------------------------------------------------
(* chunk_paper step by step: one step per iteration of the loop of           *)
(* _split_large_chunks and of the while loops of _split_chunk_arbitrarily    *)
(* and _fallback_chunking.  loop holds the locals: chunks (still to visit)   *)
(* and final_chunks of _split_large_chunks; content, section_header,         *)
(* section_level, start_index, current_pos and sub_chunks of the while loop. *)

MaxLoopTextLen == 3
MaxLoopChunkSize == 3

\* a sentence ending inside the first piece of the fallback, and the same
\* inside the second piece of a section
TextSentenceCut == <<"b", ".", "b", "b">>
TextSectionSentenceCut == <<"A", "b", "\n", "b", ".", "b", "b">>

LoopTexts ==
    { List(t) : t \in UNION { [1..n -> TextAlphabet] : n \in 0..MaxLoopTextLen } }
    \cup { TextTwoSections, TextHeaderInsideLine, TextSentenceCut, TextSectionSentenceCut }

\* every max_chunk_size from 1 on, the minimum size off or on
LoopSizes ==
    { [max_chunk_size |-> mx, min_chunk_size |-> mn] : mx \in 1..MaxLoopChunkSize, mn \in {0, 2} }


Locals(chunks, final_chunks, content, header, level, start, pos, sub_chunks) ==
    [chunks |-> chunks, final_chunks |-> final_chunks, content |-> content,
     section_header |-> header, section_level |-> level, start_index |-> start,
     current_pos |-> pos, sub_chunks |-> sub_chunks]

\* a SectionChunker has been constructed
LoopInit ==
    /\ NoPipelineCall
    /\ pc = "SectionChunker"
    /\ arg_sizes \in LoopSizes
    /\ arg_text = <<>>
    /\ ret_chunks = <<>>
    /\ arg_chunks = NoValue
    /\ ret_scored = NoValue
    /\ arg_max_chunks = NoValue
    /\ ret_selected = NoValue
    /\ chunk_calls = <<>>
    /\ loop = NoValue

LoopUnchanged ==
    /\ UNCHANGED pipeline_vars
    /\ UNCHANGED << arg_text, arg_sizes, arg_chunks, ret_scored, arg_max_chunks, ret_selected,
                    chunk_calls >>

\* where chunk_paper goes first: it returns for an empty text, runs the
\* fallback when no header is found, and else visits the section chunks
FirstLoop(text) ==
    IF text = <<>> THEN "chunked"
    ELSE IF _find_section_positions(text) = <<>> THEN "_fallback_chunking"
    ELSE "_split_large_chunks"

\* the locals on entry of that loop
FirstLocals(text) ==
    IF text = <<>> THEN NoValue
    ELSE IF _find_section_positions(text) = <<>>
         THEN Locals(<<>>, <<>>, text, UnknownSection, 1, 0, 0, <<>>)
         ELSE Locals(_create_chunks_from_sections(text, _find_section_positions(text)),
                     <<>>, <<>>, <<>>, 0, 0, 0, <<>>)

\* chunker.chunk_paper(text) is called and runs up to its first loop
ChunkPaperEnter ==
    /\ pc = "SectionChunker"
    /\ arg_text' \in LoopTexts
    /\ pc' = FirstLoop(arg_text')
    /\ loop' = FirstLocals(arg_text')
    /\ ret_chunks' = <<>>
    /\ UNCHANGED pipeline_vars
    /\ UNCHANGED << arg_sizes, arg_chunks, ret_scored, arg_max_chunks, ret_selected, chunk_calls >>

\* for chunk in chunks: keep a chunk that fits, enter the while loop for another
SplitLargeChunksStep ==
    /\ pc = "_split_large_chunks"
    /\ loop.chunks # <<>>
    /\ LET chunk == Head(loop.chunks)
       IN  IF chunk.chunk_size <= arg_sizes.max_chunk_size
           THEN /\ loop' = [loop EXCEPT !.chunks = Tail(@),
                                        !.final_chunks = Append(@, chunk)]
                /\ pc' = pc
           ELSE /\ loop' = Locals(Tail(loop.chunks), loop.final_chunks, chunk.content,
                                  chunk.section_header, chunk.section_level,
                                  chunk.start_index, 0, <<>>)
                /\ pc' = "_split_chunk_arbitrarily"
    /\ ret_chunks' = ret_chunks
    /\ LoopUnchanged

\* one iteration of while current_pos < len(content)
WhileStep ==
    /\ pc \in {"_fallback_chunking", "_split_chunk_arbitrarily"}
    /\ loop.current_pos < Len(loop.content)
    /\ LET end_pos == CutEnd(loop.content, loop.current_pos, arg_sizes.max_chunk_size)
           sub_content == Strip(Slice(loop.content, loop.current_pos, end_pos))
       IN  loop' = [loop EXCEPT
                      !.sub_chunks = IF sub_content # <<>>
                                     THEN Append(@, TextChunk(sub_content, loop.section_header,
                                                              loop.section_level,
                                                              loop.start_index + loop.current_pos,
                                                              loop.start_index + end_pos))
                                     ELSE @,
                      !.current_pos = end_pos]
    /\ pc' = pc
    /\ ret_chunks' = ret_chunks
    /\ LoopUnchanged

\* _fallback_chunking leaves its loop; chunk_paper returns its chunks
FallbackReturn ==
    /\ pc = "_fallback_chunking"
    /\ loop.current_pos >= Len(loop.content)
    /\ ret_chunks' = loop.sub_chunks
    /\ pc' = "chunked"
    /\ loop' = loop
    /\ LoopUnchanged

\* _split_chunk_arbitrarily leaves its loop; final_chunks.extend(sub_chunks)
SplitArbitrarilyReturn ==
    /\ pc = "_split_chunk_arbitrarily"
    /\ loop.current_pos >= Len(loop.content)
    /\ loop' = [loop EXCEPT !.final_chunks = @ \o loop.sub_chunks]
    /\ pc' = "_split_large_chunks"
    /\ ret_chunks' = ret_chunks
    /\ LoopUnchanged

\* _split_large_chunks has visited every chunk; chunk_paper filters and returns
SplitLargeChunksReturn ==
    /\ pc = "_split_large_chunks"
    /\ loop.chunks = <<>>
    /\ ret_chunks' = _filter_tiny_chunks(loop.final_chunks, arg_sizes.min_chunk_size)
    /\ pc' = "chunked"
    /\ loop' = loop
    /\ LoopUnchanged

\* the steps of a call that has entered a loop
LoopSteps ==
    \/ SplitLargeChunksStep
    \/ WhileStep
    \/ FallbackReturn
    \/ SplitArbitrarilyReturn
    \/ SplitLargeChunksReturn

LoopNext ==
    \/ ChunkPaperEnter
    \/ LoopSteps

LoopSpec == LoopInit /\ [][LoopNext]_vars

\* the interpreter keeps running a call that has started; whether a call is
\* made is left open
LoopFairSpec == LoopSpec /\ WF_vars(LoopSteps)

\* the stepwise run returns what chunk_paper returns
LoopReturnsChunkPaper ==
    ChunkerReturned =>
        ret_chunks = chunk_paper(arg_text, arg_sizes.max_chunk_size, arg_sizes.min_chunk_size)

\* the call is inside _split_large_chunks or one of the two while loops
InLoop == pc \in {"_split_large_chunks", "_fallback_chunking", "_split_chunk_arbitrarily"}

\* the call is inside one of the two while loops
InWhileLoop == pc \in {"_fallback_chunking", "_split_chunk_arbitrarily"}

\* C29: with max_chunk_size >= 1 every iteration of the fallback loop and of the
\* oversize-splitting loop moves current_pos forward by at least one character
\* and never past the end of the content, and chunk_paper returns.
C29_Terminates ==
    /\ [][(InWhileLoop /\ pc' = pc) =>
            /\ loop'.current_pos >= loop.current_pos + 1
            /\ loop'.current_pos <= Len(loop.content)]_vars
    /\ InLoop ~> ChunkerReturned

\* the sentence-boundary search has moved a cut backwards in the
\* oversize-splitting loop, and the call has returned
C29_Witness ==
    /\ ChunkerReturned
    /\ arg_text = TextSectionSentenceCut
    /\ arg_sizes.max_chunk_size = 3
    /\ loop.chunks = <<>>
    /\ loop.content = TextSectionSentenceCut
    /\ loop.current_pos = Len(loop.content)
    /\ Len(loop.sub_chunks) = 3
    /\ loop.sub_chunks[2].start_index = 3
    /\ loop.sub_chunks[2].end_index = 5
    /\ loop.sub_chunks[3].start_index = 5
    /\ loop.final_chunks = loop.sub_chunks

=============================================================================
